---- MODULE Spec2Model ----
(***************************************************************************)
(* latebloom: a kernel extension that patches IOPCIBridge::probeBus with a *)
(* jump into a delay trampoline.  The model follows cfuncs.c               *)
(* (latebloom_start, ExtractArgValue, the _latebloom_hook assembly) and    *)
(* klookup.c (FindSegment64, SymbolLookup).                                *)
(*                                                                         *)
(* Strings are sequences of one-character strings; the terminating NUL is  *)
(* the value NUL read one position past the last character.  Addresses are *)
(* small naturals.  32-bit registers of the trampoline are pairs           *)
(* <<high 16 bits, low 16 bits>> so that wrap-around is computed exactly.  *)
(***************************************************************************)
EXTENDS Integers, Sequences, FiniteSets, TLC

(***************************************************************************)
(* Program constants (cfuncs.c, klookup.h)                                 *)
(***************************************************************************)
HOOK_WINDOW_SIZE == 3144
MAX_ARG_DIGITS == 4
DEFAULT_SLEEP == 60
BIGSUR_XNU_MAJOR_VERSION == 20
PATTERN_SIZE == 14
NOP == 144

(***************************************************************************)
(* C strings                                                               *)
(***************************************************************************)
NUL == "NUL"

Digits == {"0", "1", "2", "3", "4", "5", "6", "7", "8", "9"}

DigitVal(c) ==
  CASE c = "0" -> 0 [] c = "1" -> 1 [] c = "2" -> 2 [] c = "3" -> 3
    [] c = "4" -> 4 [] c = "5" -> 5 [] c = "6" -> 6 [] c = "7" -> 7
    [] c = "8" -> 8 [] c = "9" -> 9

\* s[k] of a NUL-terminated C string, k counted from 0
At(s, k) == IF k < Len(s) THEN s[k + 1] ELSE NUL

\* !strncmp(&s[i], zstr, sizeof(zstr) - 1)
BOOTARG_MATCH(s, i, zstr) ==
  \A k \in 0..(Len(zstr) - 1) : At(s, i + k) = zstr[k + 1]

KEY_latebloom == <<"l", "a", "t", "e", "b", "l", "o", "o", "m", "=">>
KEY_lb_debug == <<"l", "b", "_", "d", "e", "b", "u", "g", "=">>
KEY_lb_range == <<"l", "b", "_", "r", "a", "n", "g", "e", "=">>
KEY_lb_delay2 == <<"l", "b", "_", "d", "e", "l", "a", "y", "2", "=">>
KEY_lb_range2 == <<"l", "b", "_", "r", "a", "n", "g", "e", "2", "=">>
KEY_lbloom == <<"l", "b", "l", "o", "o", "m", "=">>

(***************************************************************************)
(* Boot-args parsing (latebloom_start, cfuncs.c 475-626)                   *)
(***************************************************************************)
\* the digit loop "for (j = 0; j < MAX_ARG_DIGITS && ptr[j] is a digit; ++j)"
\* started with j and lbval; yields the final j and lbval
RECURSIVE DigitLoop(_, _, _, _)
DigitLoop(s, p, j, lbval) ==
  IF j < MAX_ARG_DIGITS /\ At(s, p + j) \in Digits
    THEN DigitLoop(s, p, j + 1, (lbval * 10) + DigitVal(At(s, p + j)))
    ELSE [j |-> j, lbval |-> lbval]

ExtractArgValue(s, StartPos) == DigitLoop(s, StartPos, 0, 0).lbval

\* { ptr += j + 1; lbval = 0; for (j = 0; ...) ... } on the triple ptr, j, lbval
\* a variant that steps by j and so stays on the comma
EXTRACT_LBLOOM_VALUE_OnComma(s, r) ==
  LET d == DigitLoop(s, r.ptr + r.j, 0, 0)
  IN  [ptr |-> r.ptr + r.j, j |-> d.j, lbval |-> d.lbval]

EXTRACT_LBLOOM_VALUE(s, r) ==
  LET d == DigitLoop(s, r.ptr + r.j + 1, 0, 0)
  IN  [ptr |-> r.ptr + r.j + 1, j |-> d.j, lbval |-> d.lbval]

\* the statics the parser assigns, with abort = the early return
ConfigVars(sv, rr, dl, asv, arr, ab) ==
  [SleepValue |-> sv, lb_RandRange |-> rr, lb_DebugLevel |-> dl,
   lb_AltSleepValue |-> asv, lb_AltRandRange |-> arr, abort |-> ab]

\* a variant that ignores a value of 0 instead of returning
ParseLatebloom_NoAbort(s, i, c) ==
  LET d == DigitLoop(s, i + Len(KEY_latebloom), 0, 0)
      lbval == IF d.j = 0 THEN -1 ELSE d.lbval
  IN  IF lbval <= 0 THEN c ELSE [c EXCEPT !.SleepValue = lbval]

\* if (BOOTARG_MATCH("latebloom=")) { ... }
ParseLatebloom(s, i, c) ==
  LET d == DigitLoop(s, i + Len(KEY_latebloom), 0, 0)
      \* lbval starts at -1 and becomes a number only when a digit is read
      lbval == IF d.j = 0 THEN -1 ELSE d.lbval
  IN  IF lbval <= 0
        THEN [c EXCEPT !.abort = TRUE]
        ELSE [c EXCEPT !.SleepValue = lbval]

\* the assignment that follows EXTRACT_LBLOOM_VALUE for each field (551-570);
\* j is the digit count of the field just read
\* an assignment that takes an empty delay2 field as 0
AssignField_BlankIsZero(field, c, j, lbval) ==
  CASE field = "range" -> [c EXCEPT !.lb_RandRange = lbval]
    [] field = "debug" -> [c EXCEPT !.lb_DebugLevel = lbval]
    [] field = "delay2" -> [c EXCEPT !.lb_AltSleepValue = lbval]
    [] field = "range2" -> [c EXCEPT !.lb_AltRandRange = lbval]

AssignField(field, c, j, lbval) ==
  CASE field = "range" -> [c EXCEPT !.lb_RandRange = lbval]
    [] field = "debug" -> [c EXCEPT !.lb_DebugLevel = lbval]
    [] field = "delay2" -> [c EXCEPT !.lb_AltSleepValue =
                                       IF j = 0 THEN c.SleepValue ELSE lbval]
    [] field = "range2" -> [c EXCEPT !.lb_AltRandRange = lbval]

\* if (ptr[j] == ',') { EXTRACT_LBLOOM_VALUE  <assignment> } on ptr, j, lbval
\* and the statics c
NextField(s, r, field) ==
  IF At(s, r.ptr + r.j) = ","
    THEN [ptr |-> r.ptr + r.j + 1,
          j |-> EXTRACT_LBLOOM_VALUE(s, r).j,
          lbval |-> EXTRACT_LBLOOM_VALUE(s, r).lbval,
          c |-> AssignField(field, r.c, EXTRACT_LBLOOM_VALUE(s, r).j,
                            EXTRACT_LBLOOM_VALUE(s, r).lbval)]
    ELSE r

\* a variant without the assignments at 533-534
ParseLbloom_NoReset(s, i, c) ==
  LET p0 == i + Len(KEY_lbloom)
      d0 == DigitLoop(s, p0, 0, 0)
      c0 == [c EXCEPT !.SleepValue = 0]
      r0 == [ptr |-> p0, j |-> d0.j, lbval |-> d0.lbval,
             c |-> [c0 EXCEPT !.SleepValue = d0.lbval]]
  IN  IF d0.lbval = 0
        THEN [c0 EXCEPT !.abort = TRUE]
        ELSE NextField(s, NextField(s, NextField(s, NextField(s, r0, "range"),
                                                 "debug"), "delay2"), "range2").c

\* else if (BOOTARG_MATCH("lbloom=")) { ... } (523-574)
ParseLbloom(s, i, c) ==
  LET p0 == i + Len(KEY_lbloom)
      d0 == DigitLoop(s, p0, 0, 0)
      c0 == [c EXCEPT !.SleepValue = 0, !.lb_RandRange = 0, !.lb_DebugLevel = 0]
      r0 == [ptr |-> p0, j |-> d0.j, lbval |-> d0.lbval,
             c |-> [c0 EXCEPT !.SleepValue = d0.lbval]]
  IN  IF d0.lbval = 0
        THEN [c0 EXCEPT !.abort = TRUE]
        ELSE NextField(s, NextField(s, NextField(s, NextField(s, r0, "range"),
                                                 "debug"), "delay2"), "range2").c

\* the body of "for (i = 0; BootArgs[i] != '\0'; ++i)" at position i
ParseAt(s, i, c) ==
  IF BOOTARG_MATCH(s, i, KEY_latebloom) THEN ParseLatebloom(s, i, c)
  ELSE IF BOOTARG_MATCH(s, i, KEY_lb_debug)
    THEN [c EXCEPT !.lb_DebugLevel = ExtractArgValue(s, i + Len(KEY_lb_debug))]
  ELSE IF BOOTARG_MATCH(s, i, KEY_lb_range)
    THEN [c EXCEPT !.lb_RandRange = ExtractArgValue(s, i + Len(KEY_lb_range))]
  ELSE IF BOOTARG_MATCH(s, i, KEY_lb_delay2)
    THEN [c EXCEPT !.lb_AltSleepValue = ExtractArgValue(s, i + Len(KEY_lb_delay2))]
  ELSE IF BOOTARG_MATCH(s, i, KEY_lb_range2)
    THEN [c EXCEPT !.lb_AltRandRange = ExtractArgValue(s, i + Len(KEY_lb_range2))]
  ELSE IF BOOTARG_MATCH(s, i, KEY_lbloom) THEN ParseLbloom(s, i, c)
  ELSE c

RECURSIVE ParseLoop(_, _, _)
ParseLoop(s, i, c) ==
  IF At(s, i) = NUL THEN c
  ELSE LET c1 == ParseAt(s, i, c)
       IN  IF c1.abort THEN c1 ELSE ParseLoop(s, i + 1, c1)

\* a variant that truncates the Phase-2 range to the Phase-1 delay
PostProcess_ClampToPhase1(c) ==
  LET sv == IF c.SleepValue = 0 THEN DEFAULT_SLEEP ELSE c.SleepValue
      asv == IF c.lb_AltSleepValue # -1 THEN c.lb_AltSleepValue ELSE sv
      rr == IF c.lb_RandRange # 0 /\ c.lb_RandRange > sv THEN sv ELSE c.lb_RandRange
      arr0 == IF c.lb_AltRandRange = -1 THEN rr ELSE c.lb_AltRandRange
      arr == IF c.lb_AltRandRange # 0
               THEN (IF arr0 > sv THEN sv ELSE arr0)
               ELSE c.lb_AltRandRange
  IN  ConfigVars(sv, rr, c.lb_DebugLevel, asv, arr, FALSE)

\* the defaults and clamps after the loop (cfuncs.c 582-626)
PostProcess(c) ==
  LET sv == IF c.SleepValue = 0 THEN DEFAULT_SLEEP ELSE c.SleepValue
      asv == IF c.lb_AltSleepValue # -1 THEN c.lb_AltSleepValue ELSE sv
      rr == IF c.lb_RandRange # 0 /\ c.lb_RandRange > sv THEN sv ELSE c.lb_RandRange
      arr0 == IF c.lb_AltRandRange = -1 THEN rr ELSE c.lb_AltRandRange
      arr == IF c.lb_AltRandRange # 0
               THEN (IF arr0 > asv THEN asv ELSE arr0)
               ELSE c.lb_AltRandRange
  IN  ConfigVars(sv, rr, c.lb_DebugLevel, asv, arr, FALSE)

\* the whole "if (SleepValue == 0) { ... }" block once BootArgs is known
ParseConfig(s, c) ==
  LET c1 == ParseLoop(s, 0, c)
  IN  IF c1.abort THEN c1 ELSE PostProcess(c1)

(***************************************************************************)
(* The signature catalogue (cfuncs.c 127-156).  WhichPattern counts from 0 *)
(* as in C; index Len(BytePatterns) is the {NULL, 0} end marker.           *)
(***************************************************************************)
BytePattern113 == <<72, 199, 69, 208, 0, 0, 0, 0, 73, 139, 6, 76, 137, 247>>
BytePattern115b2 == <<72, 199, 69, 208, 0, 0, 0, 0, 73, 139, 7, 76, 137, 255>>
BytePattern12b3 == <<72, 199, 69, 200, 0, 0, 0, 0, 73, 139, 7, 76, 137, 255>>

BytePatterns == <<BytePattern113, BytePattern115b2, BytePattern12b3>>

\* BytePatterns[w].Pattern == NULL
IsEndMarker(w) == w >= Len(BytePatterns)

(***************************************************************************)
(* The code of IOPCIBridge::probeBus as found at load time.  A layout is a *)
(* sequence of placements [off, pat, n]: the first n bytes of catalogue    *)
(* entry pat stand at byte offset off of the function; every other byte is *)
(* FILLER.  Bytes written by the installer are kept in the overlay patched.*)
(***************************************************************************)
ProbeBusEntry == 100000
FILLER == 85
Covers(p, o) == p.off <= o /\ o < p.off + p.n

OrigByte(lay, a) ==
  LET o == a - ProbeBusEntry
      hits == {k \in 1..Len(lay) : Covers(lay[k], o)}
  IN  IF hits = {} THEN FILLER
      ELSE LET k == CHOOSE x \in hits : \A y \in hits : x <= y
           IN  BytePatterns[lay[k].pat + 1][o - lay[k].off + 1]

ReadByte(lay, pat, a) == IF a \in DOMAIN pat THEN pat[a] ELSE OrigByte(lay, a)

\* a variant that compares one byte less than the signature has
MemcmpEqual_Short(lay, pat, ptr, w) ==
  \A k \in 0..(Len(BytePatterns[w + 1]) - 2) :
     ReadByte(lay, pat, ptr + k) = BytePatterns[w + 1][k + 1]

\* !memcmp(ptr, BytePatterns[w].Pattern, BytePatterns[w].size)
MemcmpEqual(lay, pat, ptr, w) ==
  \A k \in 0..(Len(BytePatterns[w + 1]) - 1) :
     ReadByte(lay, pat, ptr + k) = BytePatterns[w + 1][k + 1]

\* for (WhichPattern = 0; BytePatterns[WhichPattern].Pattern != NULL; ++WhichPattern)
\*    if (!memcmp(...)) break;       -- the value WhichPattern ends with
RECURSIVE InnerLoop(_, _, _, _)
InnerLoop(lay, pat, ptr, w) ==
  IF IsEndMarker(w) THEN w
  ELSE IF MemcmpEqual(lay, pat, ptr, w) THEN w
  ELSE InnerLoop(lay, pat, ptr, w + 1)

\* byte k (0 = lowest) of the little-endian 64-bit value v; the addresses of
\* the model are below 2^31, so bytes 4..7 are zero
LEByte(v, k) == IF k < 4 THEN (v \div (256 ^ k)) % 256 ELSE 0

\* movq %rax,(%rbx): the eight bytes of v stored at address a
Store8(a, v) == [x \in a..(a + 7) |-> LEByte(v, x - a)]

(***************************************************************************)
(* The kernel image in memory (klookup.c).  k.hdr maps a header address to *)
(* its magic and sizeofcmds, k.lc maps the address of a load command to    *)
(* its fields, k.nl the address of an nlist_64 entry to n_strx and n_value,*)
(* k.str the address of a C string to the string.  A read of an address    *)
(* that holds nothing of the kind is a page fault (FAULT).                 *)
(***************************************************************************)
KERNEL_BASE == 2097152
SIZEOF_MACH_HEADER_64 == 32
SIZEOF_NLIST_64 == 16
SIZEOF_SEGMENT_COMMAND_64 == 72
SIZEOF_SYMTAB_COMMAND == 24
MH_MAGIC_64 == <<207, 250, 237, 254>>
LC_SEGMENT_64 == 25
LC_SYMTAB == 2
LC_UUID == 27
SEG_LINKEDIT == "__LINKEDIT"
LB_SEG_PRELINK_TEXT == "__PRELINK_TEXT"
NULL == 0
FAULT == -1

RECURSIVE FindSegment64Walk(_, _, _, _)
FindSegment64Walk(k, MachHeader, LoadCommands, SegmentName) ==
  IF MachHeader \notin DOMAIN k.hdr THEN FAULT
  ELSE IF LoadCommands < MachHeader + k.hdr[MachHeader].sizeofcmds
    THEN IF LoadCommands \notin DOMAIN k.lc THEN FAULT
         ELSE IF /\ k.lc[LoadCommands].cmd = LC_SEGMENT_64
                 /\ k.lc[LoadCommands].segname = SegmentName
           THEN LoadCommands
         ELSE FindSegment64Walk(k, MachHeader,
                                LoadCommands + k.lc[LoadCommands].cmdsize, SegmentName)
    ELSE NULL

\* a walk without the break: the last record of that name is returned
RECURSIVE FindSegment64Walk_NoBreak(_, _, _, _, _)
FindSegment64Walk_NoBreak(k, MachHeader, LoadCommands, SegmentName, Segment) ==
  IF MachHeader \notin DOMAIN k.hdr THEN FAULT
  ELSE IF LoadCommands < MachHeader + k.hdr[MachHeader].sizeofcmds
    THEN IF LoadCommands \notin DOMAIN k.lc THEN FAULT
         ELSE FindSegment64Walk_NoBreak(
                k, MachHeader, LoadCommands + k.lc[LoadCommands].cmdsize, SegmentName,
                IF /\ k.lc[LoadCommands].cmd = LC_SEGMENT_64
                   /\ k.lc[LoadCommands].segname = SegmentName
                  THEN LoadCommands ELSE Segment)
    ELSE Segment

FindSegment64_NoBreak(k, MachHeader, SegmentName) ==
  FindSegment64Walk_NoBreak(k, MachHeader, MachHeader + SIZEOF_MACH_HEADER_64, SegmentName, NULL)

\* the address of the segment command, NULL, or FAULT
FindSegment64(k, MachHeader, SegmentName) ==
  FindSegment64Walk(k, MachHeader, MachHeader + SIZEOF_MACH_HEADER_64, SegmentName)

\* the loop looking for LC_SYMTAB (klookup.c 151-163)
RECURSIVE FindSymtabWalk(_, _, _)
FindSymtabWalk(k, MachHeader, LoadCommands) ==
  IF LoadCommands < MachHeader + k.hdr[MachHeader].sizeofcmds
    THEN IF LoadCommands \notin DOMAIN k.lc THEN FAULT
         ELSE IF k.lc[LoadCommands].cmd = LC_SYMTAB THEN LoadCommands
         ELSE FindSymtabWalk(k, MachHeader, LoadCommands + k.lc[LoadCommands].cmdsize)
    ELSE NULL

\* the name-list loop (klookup.c 182-192): the value Address ends with
RECURSIVE NameListLoop(_, _, _, _)
NameListLoop(k, st, Symbol, i) ==
  IF i < k.lc[st.SymbolTable].nsyms
    THEN LET tmpNameList == st.NameList + (i * SIZEOF_NLIST_64)
         IN  IF tmpNameList \notin DOMAIN k.nl THEN FAULT
             ELSE LET str == st.StringTable + k.nl[tmpNameList].n_strx
                  IN  IF str \notin DOMAIN k.str THEN FAULT
                      ELSE IF k.str[str] = Symbol THEN k.nl[tmpNameList].n_value
                      ELSE NameListLoop(k, st, Symbol, i + 1)
    ELSE NULL

Statics(symtab, strtab, nlist) ==
  [SymbolTable |-> symtab, StringTable |-> strtab, NameList |-> nlist]

LookupResult(addr, st, err, parsed) ==
  [Address |-> addr, st |-> st, err |-> err, parsed |-> parsed]

\* the search of the name list with the handle st (klookup.c 179-203)
LookupIn(k, st, Symbol, parsed) ==
  LET Address == NameListLoop(k, st, Symbol, 0)
  IN  IF Address = FAULT THEN LookupResult(NULL, st, "Fault", parsed)
      ELSE IF Address = NULL THEN LookupResult(NULL, st, "SymbolNotFound", parsed)
      ELSE LookupResult(Address, st, "ok", parsed)

\* the header the search for __LINKEDIT and LC_SYMTAB starts from (klookup.c
\* 127-136): the vmaddr of __PRELINK_TEXT when version_major >= 20 and the
\* segment is found, else the header computed from the slide
SearchHeader(k, ver, MachHeader0) ==
  LET LinkEdit == IF ver >= BIGSUR_XNU_MAJOR_VERSION
                    THEN FindSegment64(k, MachHeader0, LB_SEG_PRELINK_TEXT)
                    ELSE NULL
  IN  IF LinkEdit = FAULT THEN FAULT
      ELSE IF LinkEdit # NULL THEN k.lc[LinkEdit].vmaddr
      ELSE MachHeader0

\* a resolution that goes on after a header whose magic is wrong
Resolve_IgnoresMagic(k, ver, st, Symbol) ==
  LET MachHeader0 == k.slide + KERNEL_BASE
  IN  IF MachHeader0 \notin DOMAIN k.hdr THEN LookupResult(NULL, st, "Fault", TRUE)
      ELSE
        LET MachHeader == SearchHeader(k, ver, MachHeader0)
            LinkEdit == FindSegment64(k, MachHeader, SEG_LINKEDIT)
        IN  IF MachHeader = FAULT \/ LinkEdit = FAULT
              THEN LookupResult(NULL, st, "Fault", TRUE)
            ELSE IF LinkEdit = NULL
              THEN LookupResult(NULL, st, "SegmentNotFound", TRUE)
            ELSE
              LET SymbolTable == FindSymtabWalk(k, MachHeader,
                                                MachHeader + SIZEOF_MACH_HEADER_64)
                  base == k.lc[LinkEdit].vmaddr - k.lc[LinkEdit].fileoff
              IN  IF SymbolTable = FAULT
                    THEN LookupResult(NULL, [st EXCEPT !.SymbolTable = NULL], "Fault", TRUE)
                  ELSE IF SymbolTable = NULL
                    THEN LookupResult(NULL, [st EXCEPT !.SymbolTable = NULL],
                                      "SymbolTableNotFound", TRUE)
                  ELSE LookupIn(k, Statics(SymbolTable,
                                           base + k.lc[SymbolTable].stroff,
                                           base + k.lc[SymbolTable].symoff),
                                Symbol, TRUE)

\* the resolution of the handle (klookup.c 92-177) followed by the search
Resolve(k, ver, st, Symbol) ==
  LET MachHeader0 == k.slide + KERNEL_BASE
  IN  IF MachHeader0 \notin DOMAIN k.hdr THEN LookupResult(NULL, st, "Fault", TRUE)
      ELSE IF k.hdr[MachHeader0].magic # MH_MAGIC_64
        THEN LookupResult(NULL, st, "BadMagic", TRUE)
      ELSE
        LET MachHeader == SearchHeader(k, ver, MachHeader0)
            LinkEdit == FindSegment64(k, MachHeader, SEG_LINKEDIT)
        IN  IF MachHeader = FAULT \/ LinkEdit = FAULT
              THEN LookupResult(NULL, st, "Fault", TRUE)
            ELSE IF LinkEdit = NULL
              THEN LookupResult(NULL, st, "SegmentNotFound", TRUE)
            ELSE
              LET SymbolTable == FindSymtabWalk(k, MachHeader,
                                                MachHeader + SIZEOF_MACH_HEADER_64)
                  base == k.lc[LinkEdit].vmaddr - k.lc[LinkEdit].fileoff
              IN  IF SymbolTable = FAULT
                    THEN LookupResult(NULL, [st EXCEPT !.SymbolTable = NULL], "Fault", TRUE)
                  ELSE IF SymbolTable = NULL
                    THEN LookupResult(NULL, [st EXCEPT !.SymbolTable = NULL],
                                      "SymbolTableNotFound", TRUE)
                  ELSE LookupIn(k, Statics(SymbolTable,
                                           base + k.lc[SymbolTable].stroff,
                                           base + k.lc[SymbolTable].symoff),
                                Symbol, TRUE)

\* a lookup that goes through the image on every call
SymbolLookup_AlwaysParse(k, ver, st, Symbol) == Resolve(k, ver, st, Symbol)

\* void *SymbolLookup(const char *Symbol) on the function's statics st
SymbolLookup(k, ver, st, Symbol) ==
  IF st.SymbolTable = NULL \/ st.StringTable = NULL \/ st.NameList = NULL
    THEN Resolve(k, ver, st, Symbol)
    ELSE LookupIn(k, st, Symbol, FALSE)

(***************************************************************************)
(* Synthetic kernel images: load commands laid out one after the other     *)
(* directly behind the header, sizeofcmds their total size.                *)
(***************************************************************************)
Seg(name, vmaddr, fileoff) ==
  [cmd |-> LC_SEGMENT_64, cmdsize |-> SIZEOF_SEGMENT_COMMAND_64, segname |-> name,
   vmaddr |-> vmaddr, fileoff |-> fileoff, nsyms |-> 0, symoff |-> 0, stroff |-> 0]

Symtab(nsyms, symoff, stroff) ==
  [cmd |-> LC_SYMTAB, cmdsize |-> SIZEOF_SYMTAB_COMMAND, segname |-> "",
   vmaddr |-> 0, fileoff |-> 0, nsyms |-> nsyms, symoff |-> symoff, stroff |-> stroff]

Uuid ==
  [cmd |-> LC_UUID, cmdsize |-> SIZEOF_SYMTAB_COMMAND, segname |-> "",
   vmaddr |-> 0, fileoff |-> 0, nsyms |-> 0, symoff |-> 0, stroff |-> 0]

EmptyMap == [x \in {} |-> 0]

RECURSIVE PlaceFrom(_, _, _)
PlaceFrom(addr, cmds, i) ==
  IF i > Len(cmds) THEN EmptyMap
  ELSE (addr :> cmds[i]) @@ PlaceFrom(addr + cmds[i].cmdsize, cmds, i + 1)

RECURSIVE SumSizes(_, _)
SumSizes(cmds, i) ==
  IF i > Len(cmds) THEN 0 ELSE cmds[i].cmdsize + SumSizes(cmds, i + 1)

Header(magic, cmds) == [magic |-> magic, sizeofcmds |-> SumSizes(cmds, 1)]

\* where the synthetic images keep their parts
PrelinkOffset == 65536
LinkeditOffset == 131072
LinkeditFileoff == 4096
SymOff == 4608
StrOff == 5120
StrxStep == 32
PE_boot_args_addr == 2101248

LinkeditBase(slide) == slide + KERNEL_BASE + LinkeditOffset - LinkeditFileoff

NlistMap(slide, syms) ==
  [a \in {LinkeditBase(slide) + SymOff + (i * SIZEOF_NLIST_64) : i \in 0..(Len(syms) - 1)} |->
     LET i == (a - LinkeditBase(slide) - SymOff) \div SIZEOF_NLIST_64
     IN  [n_strx |-> 1 + (i * StrxStep), n_value |-> syms[i + 1].value]]

StringMap(slide, syms) ==
  [a \in {LinkeditBase(slide) + StrOff + 1 + (i * StrxStep) : i \in 0..(Len(syms) - 1)} |->
     LET i == (a - LinkeditBase(slide) - StrOff - 1) \div StrxStep
     IN  syms[i + 1].name]

Sym(name, value) == [name |-> name, value |-> value]

\* an image whose header at slide + KERNEL_BASE carries cmds and, when
\* prelinkCmds is not empty, a second header at the __PRELINK_TEXT address
MakeKernel(slide, magic, cmds, prelinkCmds, syms) ==
  LET h0 == slide + KERNEL_BASE
      h1 == h0 + PrelinkOffset
  IN  [slide |-> slide,
       hdr |-> IF prelinkCmds = <<>> THEN (h0 :> Header(magic, cmds))
               ELSE (h0 :> Header(magic, cmds)) @@ (h1 :> Header(MH_MAGIC_64, prelinkCmds)),
       lc |-> PlaceFrom(h0 + SIZEOF_MACH_HEADER_64, cmds, 1)
                @@ PlaceFrom(h1 + SIZEOF_MACH_HEADER_64, prelinkCmds, 1),
       nl |-> NlistMap(slide, syms),
       str |-> StringMap(slide, syms)]

TextSeg(slide) == Seg("__TEXT", slide + KERNEL_BASE, 0)
PrelinkSeg(slide) == Seg(LB_SEG_PRELINK_TEXT, slide + KERNEL_BASE + PrelinkOffset, 0)
LinkeditSeg(slide) == Seg(SEG_LINKEDIT, slide + KERNEL_BASE + LinkeditOffset, LinkeditFileoff)

StdSyms == <<Sym("_printf", 2100000), Sym("_PE_boot_args", PE_boot_args_addr),
             Sym("_IOSleep", 2100100)>>
NoBootArgsSyms == <<Sym("_printf", 2100000), Sym("_IOSleep", 2100100)>>

StdCmds(slide, syms) ==
  <<TextSeg(slide), LinkeditSeg(slide), Symtab(Len(syms), SymOff, StrOff), Uuid>>

K_good(slide) == MakeKernel(slide, MH_MAGIC_64, StdCmds(slide, StdSyms), <<>>, StdSyms)
K_prelink(slide) ==
  MakeKernel(slide, MH_MAGIC_64, <<TextSeg(slide), PrelinkSeg(slide), Uuid>>,
             StdCmds(slide, StdSyms), StdSyms)
\* an image whose __PRELINK_TEXT record carries no vmaddr
K_prelink0(slide) ==
  MakeKernel(slide, MH_MAGIC_64,
             <<TextSeg(slide), Seg(LB_SEG_PRELINK_TEXT, 0, 0), LinkeditSeg(slide),
               Symtab(Len(StdSyms), SymOff, StrOff), Uuid>>, <<>>, StdSyms)
K_badmagic(slide) ==
  MakeKernel(slide, <<206, 250, 237, 254>>, StdCmds(slide, StdSyms), <<>>, StdSyms)
K_nolinkedit(slide) ==
  MakeKernel(slide, MH_MAGIC_64,
             <<TextSeg(slide), Symtab(Len(StdSyms), SymOff, StrOff), Uuid>>, <<>>, StdSyms)
K_nosymtab(slide) ==
  MakeKernel(slide, MH_MAGIC_64, <<TextSeg(slide), LinkeditSeg(slide), Uuid>>, <<>>, StdSyms)
K_nosymbol(slide) ==
  MakeKernel(slide, MH_MAGIC_64, StdCmds(slide, NoBootArgsSyms), <<>>, NoBootArgsSyms)

KernelSlides == {0, 8192}

FailingKernels ==
  {K_badmagic(0), K_nolinkedit(0), K_nosymtab(0), K_nosymbol(0)}

(***************************************************************************)
(* Boot-args strings are rendered from a list of arguments, each a key and *)
(* its comma-separated field texts, joined by single spaces.               *)
(***************************************************************************)
KeyText(key) ==
  CASE key = "latebloom" -> KEY_latebloom
    [] key = "lb_debug" -> KEY_lb_debug
    [] key = "lb_range" -> KEY_lb_range
    [] key = "lb_delay2" -> KEY_lb_delay2
    [] key = "lb_range2" -> KEY_lb_range2
    [] key = "lbloom" -> KEY_lbloom
    [] key = "-v" -> <<"-", "v">>
    [] key = "keepsyms" -> <<"k", "e", "e", "p", "s", "y", "m", "s", "=">>

RECURSIVE JoinFields(_, _)
JoinFields(fields, i) ==
  IF i > Len(fields) THEN <<>>
  ELSE IF i = Len(fields) THEN fields[i]
  ELSE fields[i] \o <<",">> \o JoinFields(fields, i + 1)

Arg(key, fields) == [key |-> key, fields |-> fields]

RenderArg(a) == KeyText(a.key) \o JoinFields(a.fields, 1)

RECURSIVE Render(_, _)
Render(args, i) ==
  IF i > Len(args) THEN <<>>
  ELSE IF i = Len(args) THEN RenderArg(args[i])
  ELSE RenderArg(args[i]) \o <<" ">> \o Render(args, i + 1)

(***************************************************************************)
(* State                                                                   *)
(***************************************************************************)
VARIABLES
  \* the machine the extension is loaded into
  version_major,      \* the kernel's major version
  kernel,             \* the kernel image in memory
  argv,               \* the arguments boot_args was rendered from
  boot_args,          \* the string PE_boot_args() returns
  layout,             \* the code of IOPCIBridge::probeBus at load time
  probers,            \* the threads that run probeBus
  loops,              \* how many passes through the patched loop are followed
  call,               \* a call of a klookup function on its own: input and result
  cr0,                \* the set bits of CR0 (bit 16 is write-protect)
  intr,               \* the interrupt flag of the installing CPU
  patched,            \* bytes of probeBus written since load
  lb_hook_exit,       \* the 20-byte slot in front of the trampoline's jump back
  \* statics of cfuncs.c
  SleepValue, lb_DebugLevel, lb_RandRange, lb_AltSleepValue, lb_AltRandRange,
  BootArgs, lb_jump_address, WhichPattern, lb_PCI_counter, ProbeAddress,
  CurrentThread, fBaseDev, MajorDev, fDeviceNode,
  \* statics of SymbolLookup
  lookup,
  \* latebloom_start: where it stands, its locals, the calls left to make
  pc, i, ptr, saved_cr0, startsLeft,
  \* the threads that run IOPCIBridge::probeBus: where each stands in the
  \* trampoline, and its registers and stack
  tpc, regs,
  \* what has been observed so far
  obs

envVars == <<version_major, kernel, argv, boot_args, layout, probers, loops, call>>
cpuVars == <<cr0, intr, saved_cr0>>
codeVars == <<patched, lb_hook_exit>>
cfgVars == <<SleepValue, lb_DebugLevel, lb_RandRange, lb_AltSleepValue, lb_AltRandRange>>
hookVars == <<lb_jump_address, WhichPattern, ProbeAddress>>
devVars == <<fBaseDev, MajorDev, fDeviceNode>>
scanVars == <<i, ptr>>
thrVars == <<tpc, regs>>

vars == <<envVars, cpuVars, codeVars, cfgVars, hookVars, devVars, scanVars,
          thrVars, BootArgs, lb_PCI_counter, CurrentThread, lookup, pc, startsLeft, obs>>

WP_BIT == 16
CR0_AT_BOOT == {0, 1, 4, 5, 16, 18, 31}
SLOT_SIZE == 20
latebloom_hook == 3000000
BootArgsStringAddr == 2200000
STARTING_DEVSW_SLOT == -24
MinorBits == 24

NopSlot == [k \in 1..SLOT_SIZE |-> NOP]

\* the threads of the bus enumeration, named by their thread pointers
Threads == {4660, 22136, 39612}
TwoThreads == {4660, 22136}

\* what rdtsc may leave in EAX
RdtscSamples == {<<0, 0>>, <<0, 59>>, <<65535, 65535>>}

PushedRegisters ==
  <<"rdi", "rsi", "rcx", "rbx", "rdx", "rax", "r15", "r14", "r13", "r12", "r11",
    "r10", "r9", "r8">>

\* the registers popped at NoDebugOutput, in the order of the pops
PoppedRegisters ==
  <<"r8", "r9", "r10", "r11", "r12", "r13", "r14", "r15", "rax", "rdx", "rbx", "rcx",
    "rsi", "rdi">>

NoRegs ==
  [rax |-> 0,                 \* RAX while the phase and the node are settled
   edi |-> <<0, 0>>,          \* EDI, the delay
   tmp |-> 0,                 \* the counter value read by incl
   stack |-> <<>>,            \* what the invocation has pushed
   site |-> 0,                \* the address of the jump that led here
   phase |-> 0,               \* 1 or 2 once the thread pointers are compared
   sleeps |-> 0,              \* calls of IOSleep in this invocation
   logs |-> 0,                \* calls of printf in this invocation
   pushed |-> <<0, 0>>,       \* the delay pushed in front of the call of IOSleep
   rcx |-> <<0, 0>>,          \* RCX, the delay popped after the call
   line |-> <<>>,             \* the arguments printf was called with
   ran |-> <<>>,              \* the bytes executed in lb_hook_exit
   resume |-> 0,              \* where the last jump back led
   done |-> 0]                \* invocations completed

\* what cdevsw_add and devfs_make_node may return
CdevswResults == {-1, 24}
NodeResults == {NULL, 7777}

makedev(major, minor) == (major * (2 ^ MinorBits)) + minor

\* passes through the patched loop that are followed
MaxInvocations == 2

\* no call of a klookup function on its own
NoCall ==
  [op |-> "none",             \* the function called
   names |-> <<>>,            \* the segment names the image was made from
   syms |-> <<>>,             \* the symbols the image was made from
   name |-> "",               \* the name asked for in the last call
   made |-> 0,                \* calls made
   result |-> 0,              \* what the last call returned
   header |-> 0,              \* the header the last resolution searched from
   err |-> "none",            \* what the last call reported
   parses |-> 0,              \* calls that went through the image's load commands
   seen |-> <<>>,             \* the names asked for so far and what was returned
   repeats |-> 0]             \* calls that asked for a name asked for before

NoObs ==
  [outcome |-> "none",        \* how the last call of latebloom_start returned
   lookupErr |-> "none",      \* what the last SymbolLookup reported
   wpCleared |-> FALSE,       \* CR0.WP was cleared at some time
   codeWrites |-> 0,          \* stores into probeBus
   slotWrites |-> 0,          \* copies into lb_hook_exit
   badWrite |-> FALSE,        \* a store with WP set or interrupts on
   cdevswCalls |-> 0,         \* calls of cdevsw_add
   scans |-> 0,               \* pattern scans started
   resolves |-> 0,            \* times SymbolLookup parsed the image
   matchAddr |-> 0,           \* the address the scan matched at
   configs |-> 0,             \* boot-args parsed through to the defaults
   entry_cr0 |-> {},          \* CR0 when latebloom_start was entered
   returns |-> 0,             \* returns of latebloom_start
   invocations |-> 0,         \* entries into the trampoline
   nodeCalls |-> 0,           \* calls of devfs_make_node by the trampoline
   first |-> 0,               \* the thread of the first entry into the trampoline
   overlap |-> FALSE,         \* an entry was made while another thread was inside
   made |-> NULL,             \* the first node stored in fDeviceNode
   lateCalls |-> 0,           \* calls of devfs_make_node after a node was stored
   slept |-> 0,               \* calls of IOSleep by the trampoline
   incs |-> 0,                \* executions of incl _lb_PCI_counter
   ctStores |-> 0,            \* stores into CurrentThread by the trampoline
   ones |-> {}]               \* the threads an invocation took into LB_Phase1

InitMachine(ver, k, args, lay, starts, who, n, c) ==
  /\ version_major = ver
  /\ kernel = k
  /\ argv = args
  /\ boot_args = Render(args, 1)
  /\ layout = lay
  /\ probers = who
  /\ loops = n
  /\ call = c
  /\ cr0 = CR0_AT_BOOT
  /\ intr = TRUE
  /\ saved_cr0 = {}
  /\ patched = EmptyMap
  /\ lb_hook_exit = NopSlot
  /\ SleepValue = 0
  /\ lb_DebugLevel = 0
  /\ lb_RandRange = 0
  /\ lb_AltSleepValue = -1
  /\ lb_AltRandRange = -1
  /\ BootArgs = NULL
  /\ lb_jump_address = 0
  /\ WhichPattern = 0
  /\ lb_PCI_counter = 0
  /\ ProbeAddress = 0
  /\ CurrentThread = 0
  /\ fBaseDev = 0
  /\ MajorDev = 0
  /\ fDeviceNode = NULL
  /\ lookup = Statics(NULL, NULL, NULL)
  /\ pc = "idle"
  /\ i = 0
  /\ ptr = 0
  /\ startsLeft = starts
  /\ tpc = [t \in Threads |-> "probe"]
  /\ regs = [t \in Threads |-> NoRegs]
  /\ obs = NoObs

InitWith(ver, k, args, lay, starts) ==
  InitMachine(ver, k, args, lay, starts, TwoThreads, MaxInvocations, NoCall)

(***************************************************************************)
(* latebloom_start (cfuncs.c 411-743), one action per stretch of code      *)
(***************************************************************************)
Return(how) ==
  /\ pc' = "idle"
  /\ obs' = [obs EXCEPT !.outcome = how, !.returns = @ + 1]

\* entry, the version check (423-428), CurrentThread = 0 (439) and the test
\* of SleepValue (446)
StartEntry ==
  /\ pc = "idle"
  /\ startsLeft > 0
  /\ startsLeft' = startsLeft - 1
  /\ IF version_major < BIGSUR_XNU_MAJOR_VERSION
       THEN /\ pc' = "idle"
            /\ obs' = [obs EXCEPT !.outcome = "OldOS", !.returns = @ + 1,
                                  !.entry_cr0 = cr0]
            /\ UNCHANGED CurrentThread
       ELSE /\ CurrentThread' = 0
            /\ pc' = IF SleepValue = 0 THEN "getsym" ELSE "hook"
            /\ obs' = [obs EXCEPT !.outcome = "running", !.entry_cr0 = cr0]
  /\ UNCHANGED <<envVars, thrVars, cpuVars, codeVars, cfgVars, hookVars, devVars, scanVars,
                 BootArgs, lb_PCI_counter, lookup>>

\* GET_SYMBOL("_PE_boot_args", BootArgs) (453)
GetSymbol ==
  /\ pc = "getsym"
  /\ LET r == SymbolLookup(kernel, version_major, lookup, "_PE_boot_args")
     IN  /\ lookup' = r.st
         /\ BootArgs' = r.Address
         /\ IF r.Address = NULL
              THEN /\ pc' = "idle"
                   /\ obs' = [obs EXCEPT !.outcome = r.err, !.lookupErr = r.err,
                                         !.returns = @ + 1,
                                         !.resolves = @ + (IF r.parsed THEN 1 ELSE 0)]
              ELSE /\ pc' = "parse"
                   /\ obs' = [obs EXCEPT !.lookupErr = r.err,
                                         !.resolves = @ + (IF r.parsed THEN 1 ELSE 0)]
  /\ UNCHANGED <<envVars, thrVars, cpuVars, codeVars, cfgVars, hookVars, devVars, scanVars,
                 lb_PCI_counter, CurrentThread, startsLeft>>

\* the call of PE_boot_args() (456-460), the parsing loop and the defaults
\* (475-626)
ParseBootArgs ==
  /\ pc = "parse"
  /\ BootArgs' = BootArgsStringAddr
  /\ LET c == ParseConfig(boot_args,
                          ConfigVars(SleepValue, lb_RandRange, lb_DebugLevel,
                                     lb_AltSleepValue, lb_AltRandRange, FALSE))
     IN  /\ SleepValue' = c.SleepValue
         /\ lb_RandRange' = c.lb_RandRange
         /\ lb_DebugLevel' = c.lb_DebugLevel
         /\ lb_AltSleepValue' = c.lb_AltSleepValue
         /\ lb_AltRandRange' = c.lb_AltRandRange
         /\ IF c.abort THEN Return("UserDisabled")
                       ELSE /\ pc' = "hook"
                            /\ obs' = [obs EXCEPT !.configs = @ + 1]
  /\ UNCHANGED <<envVars, thrVars, cpuVars, codeVars, hookVars, devVars, scanVars,
                 lb_PCI_counter, CurrentThread, lookup, startsLeft>>

\* a variant without the test of lb_jump_address
HookCheck_Unguarded ==
  /\ pc = "hook"
  /\ ProbeAddress' = ProbeBusEntry
  /\ ptr' = ProbeBusEntry
  /\ i' = 0
  /\ pc' = "scan"
  /\ obs' = [obs EXCEPT !.scans = @ + 1]
  /\ UNCHANGED <<lb_jump_address, WhichPattern>>
  /\ UNCHANGED <<envVars, thrVars, cpuVars, codeVars, cfgVars, devVars,
                 BootArgs, lb_PCI_counter, CurrentThread, lookup, startsLeft>>

\* a variant that opens the critical section before the scan
HookCheck_ClearsWP ==
  /\ pc = "hook"
  /\ lb_jump_address = 0
  /\ ProbeAddress' = ProbeBusEntry
  /\ ptr' = ProbeBusEntry
  /\ i' = 0
  /\ pc' = "scan"
  /\ intr' = FALSE
  /\ cr0' = cr0 \ {WP_BIT}
  /\ obs' = [obs EXCEPT !.scans = @ + 1, !.wpCleared = TRUE]
  /\ UNCHANGED <<lb_jump_address, WhichPattern, saved_cr0>>
  /\ UNCHANGED <<envVars, thrVars, codeVars, cfgVars, devVars,
                 BootArgs, lb_PCI_counter, CurrentThread, lookup, startsLeft>>

\* if (lb_jump_address == 0) (632), ProbeAddress (636-646), ptr and i (652-653)
HookCheck ==
  /\ pc = "hook"
  /\ IF lb_jump_address = 0
       THEN /\ ProbeAddress' = ProbeBusEntry
            /\ ptr' = ProbeBusEntry
            /\ i' = 0
            /\ pc' = "scan"
            /\ obs' = [obs EXCEPT !.scans = @ + 1]
            /\ UNCHANGED <<lb_jump_address, WhichPattern>>
       ELSE /\ Return("Done")
            /\ UNCHANGED <<hookVars, scanVars>>
  /\ UNCHANGED <<envVars, thrVars, cpuVars, codeVars, cfgVars, devVars,
                 BootArgs, lb_PCI_counter, CurrentThread, lookup, startsLeft>>

\* a scan that goes on after a match: the match at the highest offset is kept
ScanStep_NoStop ==
  /\ pc = "scan"
  /\ IF i < HOOK_WINDOW_SIZE
       THEN LET w == InnerLoop(layout, patched, ptr, 0)
            IN  /\ WhichPattern' = IF IsEndMarker(w) /\ lb_jump_address # 0 THEN WhichPattern ELSE w
                /\ lb_jump_address' = IF IsEndMarker(w) THEN lb_jump_address ELSE ptr
                /\ obs' = IF IsEndMarker(w) THEN obs ELSE [obs EXCEPT !.matchAddr = ptr]
                /\ i' = i + 1
                /\ ptr' = ptr + 1
                /\ UNCHANGED pc
       ELSE /\ IF lb_jump_address = 0
                 THEN Return("PatternNotFound")
                 ELSE pc' = "cli" /\ UNCHANGED obs
            /\ UNCHANGED <<lb_jump_address, WhichPattern, scanVars>>
  /\ UNCHANGED <<envVars, thrVars, cpuVars, codeVars, cfgVars, devVars, ProbeAddress,
                 BootArgs, lb_PCI_counter, CurrentThread, lookup, startsLeft>>

\* one pass of "for (i = 0; i < HOOK_WINDOW_SIZE && lb_jump_address == 0; ++i, ++ptr)"
\* (653-663), or, when its condition fails, the test that follows it (666-671)
ScanStep ==
  /\ pc = "scan"
  /\ IF i < HOOK_WINDOW_SIZE /\ lb_jump_address = 0
       THEN LET w == InnerLoop(layout, patched, ptr, 0)
            IN  /\ WhichPattern' = w
                /\ lb_jump_address' = IF IsEndMarker(w) THEN lb_jump_address ELSE ptr
                /\ obs' = IF IsEndMarker(w) THEN obs ELSE [obs EXCEPT !.matchAddr = ptr]
                /\ i' = i + 1
                /\ ptr' = ptr + 1
                /\ UNCHANGED pc
       ELSE /\ IF lb_jump_address = 0
                 THEN Return("PatternNotFound")
                 ELSE pc' = "cli" /\ UNCHANGED obs
            /\ UNCHANGED <<lb_jump_address, WhichPattern, scanVars>>
  /\ UNCHANGED <<envVars, thrVars, cpuVars, codeVars, cfgVars, devVars, ProbeAddress,
                 BootArgs, lb_PCI_counter, CurrentThread, lookup, startsLeft>>

\* a store of the bytes m into code: it faults when CR0.WP is set
CodeStoreOk == WP_BIT \notin cr0

NoteStore(o) == [o EXCEPT !.badWrite = @ \/ ~CodeStoreOk \/ intr]

\* cli (676)
Cli ==
  /\ pc = "cli"
  /\ intr' = FALSE
  /\ pc' = "cr0"
  /\ UNCHANGED <<envVars, thrVars, cr0, saved_cr0, codeVars, cfgVars, hookVars, devVars, scanVars,
                 BootArgs, lb_PCI_counter, CurrentThread, lookup, startsLeft, obs>>

\* CR0 saved on the stack and written back without its WP bit (677-682)
ClearWP ==
  /\ pc = "cr0"
  /\ saved_cr0' = cr0
  /\ cr0' = cr0 \ {WP_BIT}
  /\ obs' = [obs EXCEPT !.wpCleared = TRUE]
  /\ pc' = "jmp"
  /\ UNCHANGED <<envVars, thrVars, intr, codeVars, cfgVars, hookVars, devVars, scanVars,
                 BootArgs, lb_PCI_counter, CurrentThread, lookup, startsLeft>>

JMP_RIP == 9727

\* movl $0x25ff,%eax ; movq %rax,(%rbx) (693-695)
WriteJmp ==
  /\ pc = "jmp"
  /\ patched' = IF CodeStoreOk THEN Store8(lb_jump_address, JMP_RIP) @@ patched
                               ELSE patched
  /\ obs' = [NoteStore(obs) EXCEPT !.codeWrites = @ + 1]
  /\ pc' = "addr"
  /\ UNCHANGED <<envVars, thrVars, cpuVars, lb_hook_exit, cfgVars, hookVars, devVars, scanVars,
                 BootArgs, lb_PCI_counter, CurrentThread, lookup, startsLeft>>

\* leaq _latebloom_hook(%rip),%rax ; addq $6,%rbx ; movq %rax,(%rbx) (696-698)
WriteAddr ==
  /\ pc = "addr"
  /\ patched' = IF CodeStoreOk THEN Store8(lb_jump_address + 6, latebloom_hook) @@ patched
                               ELSE patched
  /\ obs' = [NoteStore(obs) EXCEPT !.codeWrites = @ + 1]
  /\ pc' = "jumpback"
  /\ UNCHANGED <<envVars, thrVars, cpuVars, lb_hook_exit, cfgVars, hookVars, devVars, scanVars,
                 BootArgs, lb_PCI_counter, CurrentThread, lookup, startsLeft>>

\* a variant that leaves out addq $8,%rbx
SetJumpBack_Short ==
  /\ pc = "jumpback"
  /\ lb_jump_address' = lb_jump_address + 6
  /\ pc' = "memcpy"
  /\ UNCHANGED <<envVars, thrVars, cpuVars, codeVars, cfgVars, WhichPattern, ProbeAddress, devVars,
                 scanVars, BootArgs, lb_PCI_counter, CurrentThread, lookup, startsLeft, obs>>

\* addq $8,%rbx ; movq %rbx,_lb_jump_address(%rip) (699-700)
SetJumpBack ==
  /\ pc = "jumpback"
  /\ lb_jump_address' = lb_jump_address + 6 + 8
  /\ pc' = "memcpy"
  /\ UNCHANGED <<envVars, thrVars, cpuVars, codeVars, cfgVars, WhichPattern, ProbeAddress, devVars,
                 scanVars, BootArgs, lb_PCI_counter, CurrentThread, lookup, startsLeft, obs>>

\* a variant that leaves the NOPs of the slot in place
CopyPattern_NopsKept ==
  /\ pc = "memcpy"
  /\ obs' = [NoteStore(obs) EXCEPT !.slotWrites = @ + 1]
  /\ pc' = "restore"
  /\ UNCHANGED <<envVars, thrVars, cpuVars, codeVars, cfgVars, hookVars, devVars, scanVars,
                 BootArgs, lb_PCI_counter, CurrentThread, lookup, startsLeft>>

\* memcpy(&lb_hook_exit, BytePatterns[WhichPattern].Pattern, size) (704-705)
CopyPattern ==
  /\ pc = "memcpy"
  /\ lb_hook_exit' =
       IF CodeStoreOk
         THEN [k \in 1..SLOT_SIZE |->
                 IF k <= Len(BytePatterns[WhichPattern + 1])
                   THEN BytePatterns[WhichPattern + 1][k] ELSE lb_hook_exit[k]]
         ELSE lb_hook_exit
  /\ obs' = [NoteStore(obs) EXCEPT !.slotWrites = @ + 1]
  /\ pc' = "restore"
  /\ UNCHANGED <<envVars, thrVars, cpuVars, patched, cfgVars, hookVars, devVars, scanVars,
                 BootArgs, lb_PCI_counter, CurrentThread, lookup, startsLeft>>

\* a variant that pops the saved CR0 and does not write it back
RestoreCR0_Skipped ==
  /\ pc = "restore"
  /\ pc' = "sti"
  /\ UNCHANGED <<envVars, thrVars, cpuVars, codeVars, cfgVars, hookVars, devVars, scanVars,
                 BootArgs, lb_PCI_counter, CurrentThread, lookup, startsLeft, obs>>

\* popq %rax ; movq %rax,%cr0 (708-709)
RestoreCR0 ==
  /\ pc = "restore"
  /\ cr0' = saved_cr0
  /\ pc' = "sti"
  /\ UNCHANGED <<envVars, thrVars, intr, saved_cr0, codeVars, cfgVars, hookVars, devVars, scanVars,
                 BootArgs, lb_PCI_counter, CurrentThread, lookup, startsLeft, obs>>

\* sti (710)
Sti ==
  /\ pc = "sti"
  /\ intr' = TRUE
  /\ pc' = "cdevsw"
  /\ UNCHANGED <<envVars, thrVars, cr0, saved_cr0, codeVars, cfgVars, hookVars, devVars, scanVars,
                 BootArgs, lb_PCI_counter, CurrentThread, lookup, startsLeft, obs>>

\* MajorDev = cdevsw_add(STARTING_DEVSW_SLOT, &devsw) and fBaseDev (719-723)
CdevswAdd ==
  /\ pc = "cdevsw"
  /\ \E r \in CdevswResults :
       /\ MajorDev' = r
       /\ IF r >= 0
            THEN /\ fBaseDev' = makedev(r, 0)
                 /\ pc' = "mknode"
                 /\ obs' = [obs EXCEPT !.cdevswCalls = @ + 1]
            ELSE /\ UNCHANGED fBaseDev
                 /\ pc' = "idle"
                 /\ obs' = [obs EXCEPT !.cdevswCalls = @ + 1, !.outcome = "Done",
                                       !.returns = @ + 1]
  /\ UNCHANGED <<envVars, thrVars, cpuVars, codeVars, cfgVars, hookVars, fDeviceNode, scanVars,
                 BootArgs, lb_PCI_counter, CurrentThread, lookup, startsLeft>>

\* fDeviceNode = devfs_make_node(fBaseDev, ...) (732-737) and the return
MakeNode ==
  /\ pc = "mknode"
  /\ \E r \in NodeResults :
       /\ fDeviceNode' = r
       /\ obs' = [obs EXCEPT !.outcome = "Done", !.returns = @ + 1,
                              !.made = IF @ = NULL THEN r ELSE @]
  /\ pc' = "idle"
  /\ UNCHANGED <<envVars, thrVars, cpuVars, codeVars, cfgVars, hookVars, fBaseDev, MajorDev, scanVars,
                 BootArgs, lb_PCI_counter, CurrentThread, lookup, startsLeft>>

NextStart ==
  \/ StartEntry
  \/ GetSymbol
  \/ ParseBootArgs
  \/ HookCheck
  \/ ScanStep
  \/ Cli
  \/ ClearWP
  \/ WriteJmp
  \/ WriteAddr
  \/ SetJumpBack
  \/ CopyPattern
  \/ RestoreCR0
  \/ Sti
  \/ CdevswAdd
  \/ MakeNode

(***************************************************************************)
(* 32-bit registers, held as <<high 16 bits, low 16 bits>>                 *)
(***************************************************************************)
HALF == 65536

\* movl mem,%reg: the low 32 bits of a long
W32(v) ==
  IF v >= 0 THEN <<(v \div HALF) % HALF, v % HALF>>
            ELSE <<HALF - 1, (HALF + v) % HALF>>

IsZero32(a) == a = <<0, 0>>

\* addl
Add32(a, b) ==
  LET lo == a[2] + b[2]
  IN  <<(a[1] + b[1] + (lo \div HALF)) % HALF, lo % HALF>>

\* negl
Neg32(a) == Add32(<<(HALF - 1) - a[1], (HALF - 1) - a[2]>>, <<0, 1>>)

Less32(a, b) == a[1] < b[1] \/ (a[1] = b[1] /\ a[2] < b[2])

RECURSIVE ModSub32(_, _)
ModSub32(a, r) == IF Less32(a, r) THEN a ELSE ModSub32(Add32(a, Neg32(r)), r)

\* a variant that leaves the sample as it was read
DivlRemainder_Unreduced(a, r) == a

\* xorl %edx,%edx ; divl r: the remainder left in EDX (r is not zero)
DivlRemainder(a, r) ==
  IF r[1] = 0
    THEN <<0, ((((a[1] % r[2]) * (HALF % r[2])) % r[2]) + (a[2] % r[2])) % r[2]>>
    ELSE ModSub32(a, r)

\* CTcontinue (cfuncs.c 329-337): EDI after the offset in EDX is added or
\* subtracted by the low bit of the second rdtsc
CTcontinue(edi, edx, eax) ==
  LET ebx == IF eax[2] % 2 = 1 THEN Neg32(edx) ELSE edx
  IN  Add32(edi, ebx)

(***************************************************************************)
(* _latebloom_hook (cfuncs.c 227-385), one action per stretch of code that *)
(* touches shared memory once                                              *)
(***************************************************************************)
hookFrame ==
  <<envVars, cpuVars, codeVars, cfgVars, hookVars, scanVars, BootArgs, lookup, pc,
    startsLeft, fBaseDev, MajorDev>>

\* the six bytes of jmpq *0(%rip) followed by the address of the trampoline
JumpBytes(target) ==
  [k \in 0..13 |-> IF k < 6 THEN LEByte(JMP_RIP, k) ELSE LEByte(target, k - 6)]

JumpToHookAt(a) ==
  \A k \in 0..13 : ReadByte(layout, patched, a + k) = JumpBytes(latebloom_hook)[k]

\* probeBus runs once latebloom_start has returned
ProbeMayRun == pc = "idle" /\ obs.returns > 0

\* a thread in probeBus reaches a jump to the trampoline; the fourteen pushes
\* (228-241)
HookEnter(t) ==
  /\ tpc[t] = "probe"
  /\ t \in probers
  /\ ProbeMayRun
  /\ obs.invocations < loops
  /\ \E a \in DOMAIN patched :
       /\ JumpToHookAt(a)
       /\ regs' = [regs EXCEPT ![t] =
                     [NoRegs EXCEPT !.stack = PushedRegisters, !.site = a,
                                    !.done = regs[t].done]]
  /\ tpc' = [tpc EXCEPT ![t] = "ctload"]
  /\ obs' = [obs EXCEPT !.invocations = @ + 1,
                         !.first = IF @ = 0 THEN t ELSE @,
                         !.overlap = @ \/ \E u \in Threads \ {t} : tpc[u] # "probe"]
  /\ UNCHANGED <<hookFrame, lb_PCI_counter, CurrentThread, fDeviceNode>>

\* movq _CurrentThread(%rip),%rax ; testq ; jnz CTloaded (266-268)
CTLoad(t) ==
  /\ tpc[t] = "ctload"
  /\ regs' = [regs EXCEPT ![t].rax = CurrentThread]
  /\ tpc' = [tpc EXCEPT ![t] = IF CurrentThread # 0 THEN "ctcmp" ELSE "ctstore"]
  /\ UNCHANGED <<hookFrame, lb_PCI_counter, CurrentThread, fDeviceNode, obs>>

\* a trampoline that never records the first thread
CTStore_NotStored(t) ==
  /\ tpc[t] = "ctstore"
  /\ regs' = [regs EXCEPT ![t].rax = t]
  /\ tpc' = [tpc EXCEPT ![t] = "ctcmp"]
  /\ UNCHANGED <<hookFrame, lb_PCI_counter, CurrentThread, fDeviceNode, obs>>

\* movq %gs:0x10,%rax ; movq %rax,_CurrentThread(%rip) (269-270)
CTStore(t) ==
  /\ tpc[t] = "ctstore"
  /\ regs' = [regs EXCEPT ![t].rax = t]
  /\ CurrentThread' = t
  /\ tpc' = [tpc EXCEPT ![t] = "ctcmp"]
  /\ obs' = [obs EXCEPT !.ctStores = @ + 1]
  /\ UNCHANGED <<hookFrame, lb_PCI_counter, fDeviceNode>>

\* CTloaded: cmpq %gs:0x10,%rax ; jz LB_Phase1 (273-274)
CTCompare(t) ==
  /\ tpc[t] = "ctcmp"
  /\ regs' = [regs EXCEPT ![t].phase = IF regs[t].rax = t THEN 1 ELSE 2]
  /\ tpc' = [tpc EXCEPT ![t] = IF regs[t].rax = t THEN "phase1" ELSE "nodecheck"]
  /\ obs' = [obs EXCEPT !.ones = IF regs[t].rax = t THEN @ \cup {t} ELSE @]
  /\ UNCHANGED <<hookFrame, lb_PCI_counter, CurrentThread, fDeviceNode>>

\* a trampoline that goes on only once the node exists
NodeCheck_Wait(t) ==
  /\ tpc[t] = "nodecheck"
  /\ tpc' = [tpc EXCEPT ![t] = IF fDeviceNode # NULL THEN "phase2" ELSE "nodecheck"]
  /\ UNCHANGED <<hookFrame, regs, lb_PCI_counter, CurrentThread, fDeviceNode, obs>>

\* cmpq $0,_fDeviceNode(%rip) ; jnz LB_DeviceNodeMade (287-288)
NodeCheck(t) ==
  /\ tpc[t] = "nodecheck"
  /\ tpc' = [tpc EXCEPT ![t] = IF fDeviceNode # NULL THEN "phase2" ELSE "nodecall"]
  /\ UNCHANGED <<hookFrame, regs, lb_PCI_counter, CurrentThread, fDeviceNode, obs>>

\* callq _devfs_make_node (289-296)
NodeCall(t) ==
  /\ tpc[t] = "nodecall"
  /\ \E r \in NodeResults : regs' = [regs EXCEPT ![t].rax = r]
  /\ tpc' = [tpc EXCEPT ![t] = "nodestore"]
  /\ obs' = [obs EXCEPT !.nodeCalls = @ + 1,
                         !.lateCalls = IF obs.made # NULL THEN @ + 1 ELSE @]
  /\ UNCHANGED <<hookFrame, lb_PCI_counter, CurrentThread, fDeviceNode>>

\* movq %rax,_fDeviceNode(%rip) (297)
NodeStore(t) ==
  /\ tpc[t] = "nodestore"
  /\ fDeviceNode' = regs[t].rax
  /\ tpc' = [tpc EXCEPT ![t] = "phase2"]
  /\ obs' = [obs EXCEPT !.made = IF @ = NULL THEN regs[t].rax ELSE @]
  /\ UNCHANGED <<hookFrame, regs, lb_PCI_counter, CurrentThread>>

\* the delay of a phase: EDI loaded from the base, and, when the range is not
\* zero, rdtsc ; divl range ; CTcontinue (300-337)
Jittered(t, base, range, next) ==
  IF IsZero32(range)
    THEN /\ regs' = [regs EXCEPT ![t].edi = base]
         /\ tpc' = [tpc EXCEPT ![t] = next]
    ELSE \E s1 \in RdtscSamples, s2 \in RdtscSamples :
           /\ regs' = [regs EXCEPT ![t].edi = CTcontinue(base, DivlRemainder(s1, range), s2)]
           /\ tpc' = [tpc EXCEPT ![t] = next]

\* a trampoline without the test of the Phase-2 delay against 0
Phase2Delay_NoZeroTest(t) ==
  /\ tpc[t] = "phase2"
  /\ Jittered(t, W32(lb_AltSleepValue), W32(lb_AltRandRange), "sleep")
  /\ UNCHANGED <<hookFrame, lb_PCI_counter, CurrentThread, fDeviceNode, obs>>

\* LB_DeviceNodeMade: movl _lb_AltSleepValue(%rip),%edi ; testl ; jz NoDebugOutput ;
\* cmpl $0,_lb_AltRandRange(%rip) ; jz LB_DoSleep ; rdtsc ; divl (300-318, 329-337)
Phase2Delay(t) ==
  /\ tpc[t] = "phase2"
  /\ IF IsZero32(W32(lb_AltSleepValue))
       THEN /\ regs' = [regs EXCEPT ![t].edi = W32(lb_AltSleepValue)]
            /\ tpc' = [tpc EXCEPT ![t] = "pops"]
       ELSE Jittered(t, W32(lb_AltSleepValue), W32(lb_AltRandRange), "sleep")
  /\ UNCHANGED <<hookFrame, lb_PCI_counter, CurrentThread, fDeviceNode, obs>>

\* LB_Phase1: movl _SleepValue(%rip),%edi ; cmpl $0,_lb_RandRange(%rip) ;
\* jz LB_DoSleep ; rdtsc ; divl (321-337)
Phase1Delay(t) ==
  /\ tpc[t] = "phase1"
  /\ Jittered(t, W32(SleepValue), W32(lb_RandRange), "sleep")
  /\ UNCHANGED <<hookFrame, lb_PCI_counter, CurrentThread, fDeviceNode, obs>>

\* LB_DoSleep: pushq %rdi ; callq _IOSleep (339-341)
DoSleep(t) ==
  /\ tpc[t] = "sleep"
  /\ regs' = [regs EXCEPT ![t].stack = Append(@, "rdi"),
                          ![t].pushed = regs[t].edi,
                          ![t].sleeps = @ + 1]
  /\ tpc' = [tpc EXCEPT ![t] = "incload"]
  /\ obs' = [obs EXCEPT !.slept = @ + 1]
  /\ UNCHANGED <<hookFrame, lb_PCI_counter, CurrentThread, fDeviceNode>>

\* incl _lb_PCI_counter(%rip), the read (349): the instruction has no lock prefix
IncLoad(t) ==
  /\ tpc[t] = "incload"
  /\ regs' = [regs EXCEPT ![t].tmp = lb_PCI_counter]
  /\ tpc' = [tpc EXCEPT ![t] = "incstore"]
  /\ UNCHANGED <<hookFrame, lb_PCI_counter, CurrentThread, fDeviceNode, obs>>

\* an increment whose popq %rcx stands behind the jump to NoDebugOutput
IncStore_PopAfterJump(t) ==
  /\ tpc[t] = "incstore"
  /\ lb_PCI_counter' = regs[t].tmp + 1
  /\ regs' = [regs EXCEPT ![t].stack = IF lb_DebugLevel % 2 = 1
                                          THEN SubSeq(@, 1, Len(@) - 1) ELSE @,
                          ![t].tmp = 0,
                          ![t].rcx = regs[t].pushed]
  /\ tpc' = [tpc EXCEPT ![t] = IF lb_DebugLevel % 2 = 1 THEN "printf" ELSE "pops"]
  /\ obs' = [obs EXCEPT !.incs = @ + 1]
  /\ UNCHANGED <<hookFrame, CurrentThread, fDeviceNode>>

\* an increment by two
IncStore_Twice(t) ==
  /\ tpc[t] = "incstore"
  /\ lb_PCI_counter' = regs[t].tmp + 2
  /\ regs' = [regs EXCEPT ![t].stack = SubSeq(@, 1, Len(@) - 1), ![t].tmp = 0,
                          ![t].rcx = regs[t].pushed]
  /\ tpc' = [tpc EXCEPT ![t] = IF lb_DebugLevel % 2 = 1 THEN "printf" ELSE "pops"]
  /\ obs' = [obs EXCEPT !.incs = @ + 1]
  /\ UNCHANGED <<hookFrame, CurrentThread, fDeviceNode>>

\* an increment that writes back the value it read
IncStore_Kept(t) ==
  /\ tpc[t] = "incstore"
  /\ lb_PCI_counter' = regs[t].tmp
  /\ regs' = [regs EXCEPT ![t].stack = SubSeq(@, 1, Len(@) - 1), ![t].tmp = 0,
                          ![t].rcx = regs[t].pushed]
  /\ tpc' = [tpc EXCEPT ![t] = IF lb_DebugLevel % 2 = 1 THEN "printf" ELSE "pops"]
  /\ obs' = [obs EXCEPT !.incs = @ + 1]
  /\ UNCHANGED <<hookFrame, CurrentThread, fDeviceNode>>

\* incl, the write ; testl $1,_lb_DebugLevel(%rip) ; popq %rcx ; jz NoDebugOutput
\* (349-352)
IncStore(t) ==
  /\ tpc[t] = "incstore"
  /\ lb_PCI_counter' = regs[t].tmp + 1
  /\ regs' = [regs EXCEPT ![t].stack = SubSeq(@, 1, Len(@) - 1), ![t].tmp = 0,
                          ![t].rcx = regs[t].pushed]
  /\ tpc' = [tpc EXCEPT ![t] = IF lb_DebugLevel % 2 = 1 THEN "printf" ELSE "pops"]
  /\ obs' = [obs EXCEPT !.incs = @ + 1]
  /\ UNCHANGED <<hookFrame, CurrentThread, fDeviceNode>>

HookMessagePhase1 == "ONBOARD"
HookMessagePhase2 == "EXTERNAL"

\* the arguments of printf in the order of HookMessage: loop counter, phase
\* label, delay, thread
LogLine(counter, label, delay, thread) ==
  [counter |-> counter, label |-> label, delay |-> delay, thread |-> thread]

\* the label: leaq _HookMessagePhase2(%rip),%rsi ; leaq _HookMessagePhase1(%rip),%rdx ;
\* movq %gs:0x10,%r8 ; cmpq _CurrentThread(%rip),%r8 ; cmovne %rsi,%rdx (355-359)
DebugLabel(t) == IF t # CurrentThread THEN HookMessagePhase2 ELSE HookMessagePhase1

\* the arguments and callq _printf (354-362)
DebugOutput(t) ==
  /\ tpc[t] = "printf"
  /\ regs' = [regs EXCEPT ![t].logs = @ + 1,
                          ![t].line = LogLine(lb_PCI_counter, DebugLabel(t), regs[t].rcx,
                                              W32(t))]
  /\ tpc' = [tpc EXCEPT ![t] = "pops"]
  /\ UNCHANGED <<hookFrame, lb_PCI_counter, CurrentThread, fDeviceNode, obs>>

Reverse(s) == [k \in 1..Len(s) |-> s[Len(s) + 1 - k]]

\* what remains of a stack after the registers in pops are popped, "fault"
\* when a pop takes a value pushed from another register
PopAll(stack, pops) ==
  LET n == Len(stack) - Len(pops)
  IN  IF n >= 0 /\ SubSeq(stack, n + 1, Len(stack)) = Reverse(pops)
        THEN SubSeq(stack, 1, n)
        ELSE <<"fault">>

\* NoDebugOutput: the fourteen pops (363-377)
NoDebugOutput(t) ==
  /\ tpc[t] = "pops"
  /\ regs' = [regs EXCEPT ![t].stack = PopAll(@, PoppedRegisters),
                          ![t].rax = 0, ![t].edi = <<0, 0>>, ![t].rcx = <<0, 0>>,
                          ![t].pushed = <<0, 0>>, ![t].line = <<>>]
  /\ tpc' = [tpc EXCEPT ![t] = "slot"]
  /\ UNCHANGED <<hookFrame, lb_PCI_counter, CurrentThread, fDeviceNode, obs>>

\* the bytes of a sequence that are not NOPs, in order
RECURSIVE Instructions(_)
Instructions(bytes) ==
  IF bytes = <<>> THEN <<>>
  ELSE IF Head(bytes) = NOP THEN Instructions(Tail(bytes))
  ELSE <<Head(bytes)>> \o Instructions(Tail(bytes))

\* _lb_hook_exit: the twenty bytes of the slot are executed (379-384)
RunSlot(t) ==
  /\ tpc[t] = "slot"
  /\ regs' = [regs EXCEPT ![t].ran = Instructions(lb_hook_exit)]
  /\ tpc' = [tpc EXCEPT ![t] = "jmpq"]
  /\ UNCHANGED <<hookFrame, lb_PCI_counter, CurrentThread, fDeviceNode, obs>>

\* jmpq *_lb_jump_address(%rip) (385)
JumpBack(t) ==
  /\ tpc[t] = "jmpq"
  /\ regs' = [regs EXCEPT ![t] = [NoRegs EXCEPT !.site = regs[t].site,
                                                !.ran = regs[t].ran,
                                                !.resume = lb_jump_address,
                                                !.done = regs[t].done + 1]]
  /\ tpc' = [tpc EXCEPT ![t] = "probe"]
  /\ UNCHANGED <<hookFrame, lb_PCI_counter, CurrentThread, fDeviceNode, obs>>

NextHook ==
  \E t \in Threads :
    \/ HookEnter(t)
    \/ CTLoad(t)
    \/ CTStore(t)
    \/ CTCompare(t)
    \/ NodeCheck(t)
    \/ NodeCall(t)
    \/ NodeStore(t)
    \/ Phase2Delay(t)
    \/ Phase1Delay(t)
    \/ DoSleep(t)
    \/ IncLoad(t)
    \/ IncStore(t)
    \/ DebugOutput(t)
    \/ NoDebugOutput(t)
    \/ RunSlot(t)
    \/ JumpBack(t)

Next == NextStart \/ NextHook

(***************************************************************************)
(* Boot-args strings to parse                                              *)
(***************************************************************************)
T_empty == <<>>
T_0 == <<"0">>
T_7 == <<"7">>
T_90 == <<"9", "0">>
T_200 == <<"2", "0", "0">>
T_0090 == <<"0", "0", "9", "0">>
T_9999 == <<"9", "9", "9", "9">>
T_12345 == <<"1", "2", "3", "4", "5">>

SingleKeys == {"latebloom", "lb_debug", "lb_range", "lb_delay2", "lb_range2"}
ValueTexts == {T_empty, T_0, T_7, T_200, T_12345}
SingleArgs == {Arg(k, <<v>>) : k \in SingleKeys, v \in ValueTexts}

FieldTexts == {T_empty, T_0, T_7, T_90}
DigitFieldTexts == {T_0, T_7, T_0090, T_9999}
MaxFields == 5

CompositeArgs ==
  UNION {{Arg("lbloom", f) : f \in [1..n -> FieldTexts]} : n \in 1..MaxFields}
FullCompositeArgs == {Arg("lbloom", f) : f \in [1..5 -> DigitFieldTexts]}

CoreArgs ==
  {Arg("latebloom", <<T_0>>), Arg("latebloom", <<T_7>>), Arg("latebloom", <<T_empty>>),
   Arg("lb_range", <<T_200>>), Arg("lb_range2", <<T_200>>), Arg("lb_range2", <<T_7>>),
   Arg("lb_delay2", <<T_0>>), Arg("lb_delay2", <<T_90>>), Arg("lb_debug", <<T_7>>),
   Arg("lbloom", <<T_0>>), Arg("lbloom", <<T_90, T_empty, T_7>>),
   Arg("lbloom", <<T_90, T_200, T_7, T_empty, T_200>>),
   Arg("lbloom", <<T_12345, T_90, T_7>>), Arg("-v", <<>>)}

T_1 == <<"1">>
T_5 == <<"5">>
T_20 == <<"2", "0">>
T_30 == <<"3", "0">>

\* the strings the documentation gives as examples
ExampleInputs ==
  {<<Arg("lbloom", <<T_90, T_20, T_1, T_30, T_5>>)>>,
   <<Arg("lbloom", <<T_90, T_empty, T_1>>)>>,
   <<Arg("lbloom", <<T_0>>)>>,
   <<Arg("lb_range", <<T_200>>)>>}

MaxArgs == 2

ArgLists == UNION {[1..n -> CoreArgs] : n \in 0..MaxArgs}

\* composite arguments of one to five fields, one of them of five digits
OverlongArgs ==
  UNION {{Arg("lbloom", [k \in 1..n |-> IF k = p THEN T_12345 ELSE f[k]]) :
            f \in [1..n -> {T_7, T_90}], p \in 1..n} : n \in 1..5}

\* independent keys and composite keys of one, three and five fields, in any
\* order
OrderArgs ==
  {Arg(k, <<T_7>>) : k \in SingleKeys}
    \cup {Arg("lbloom", <<T_90>>), Arg("lbloom", <<T_200, T_90, T_1>>),
          Arg("lbloom", <<T_200, T_90, T_1, T_30, T_5>>)}
MaxOrder == 3
OrderInputs == UNION {[1..n -> OrderArgs] : n \in 2..MaxOrder}

ConfigInputs ==
  ArgLists \cup ExampleInputs \cup OrderInputs
    \cup {<<a>> : a \in SingleArgs \cup CompositeArgs \cup FullCompositeArgs \cup OverlongArgs}

NearLayout == <<[off |-> 2, pat |-> 1, n |-> PATTERN_SIZE]>>

InitConfig ==
  \E args \in ConfigInputs : InitWith(BIGSUR_XNU_MAJOR_VERSION, K_good(0), args, NearLayout, 1)

SpecConfig == InitConfig /\ [][NextStart]_vars

(***************************************************************************)
(* The whole driver: latebloom_start is called once, and the threads of    *)
(* the bus enumeration run probeBus after it has returned.                 *)
(***************************************************************************)
T_2 == <<"2">>

\* boot-args that configure the two phases in the ways the trampoline tells apart
HookInputs ==
  {<<>>,
   <<Arg("lb_range", <<T_200>>)>>,
   <<Arg("lbloom", <<T_90, T_20, T_1, T_30, T_5>>)>>,
   <<Arg("lbloom", <<T_7, T_200, T_1, T_0>>)>>,
   <<Arg("latebloom", <<T_7>>), Arg("lb_debug", <<T_2>>), Arg("lb_range2", <<T_200>>)>>}

\* boot-args that ask for no hook, alone and among other arguments
DisablingInputs ==
  {<<Arg("latebloom", <<T_0>>)>>,
   <<Arg("lbloom", <<T_0>>)>>,
   <<Arg("lbloom", <<T_0, T_20, T_1>>)>>,
   <<Arg("latebloom", <<T_7>>), Arg("latebloom", <<T_0>>)>>,
   <<Arg("latebloom", <<T_0>>), Arg("latebloom", <<T_7>>)>>,
   <<Arg("-v", <<>>), Arg("lb_range", <<T_200>>), Arg("lbloom", <<T_0>>),
     Arg("lb_debug", <<T_7>>)>>,
   <<Arg("lbloom", <<T_90, T_20>>), Arg("keepsyms", <<T_1>>), Arg("latebloom", <<T_0>>)>>}

\* where the signatures lie in probeBus
L_at0 == <<[off |-> 0, pat |-> 0, n |-> PATTERN_SIZE]>>
L_last == <<[off |-> HOOK_WINDOW_SIZE - 1, pat |-> 2, n |-> PATTERN_SIZE]>>
L_outside == <<[off |-> HOOK_WINDOW_SIZE, pat |-> 0, n |-> PATTERN_SIZE]>>
L_none == <<>>
L_decoy ==
  <<[off |-> 1, pat |-> 0, n |-> PATTERN_SIZE - 1], [off |-> 20, pat |-> 0, n |-> PATTERN_SIZE]>>
L_two == <<[off |-> 5, pat |-> 1, n |-> PATTERN_SIZE], [off |-> 30, pat |-> 0, n |-> PATTERN_SIZE]>>
L_twice == <<[off |-> 3, pat |-> 0, n |-> PATTERN_SIZE], [off |-> 40, pat |-> 0, n |-> PATTERN_SIZE]>>

Layouts == {NearLayout, L_at0, L_last, L_outside, L_none, L_decoy, L_two, L_twice}

Kernels ==
  FailingKernels \cup {K_good(sl) : sl \in KernelSlides} \cup {K_prelink(sl) : sl \in KernelSlides}

Versions == {BIGSUR_XNU_MAJOR_VERSION - 1, BIGSUR_XNU_MAJOR_VERSION, BIGSUR_XNU_MAJOR_VERSION + 1}

InitOnce(starts) ==
  \/ \E args \in HookInputs \cup DisablingInputs :
       InitWith(BIGSUR_XNU_MAJOR_VERSION, K_good(0), args, NearLayout, starts)
  \/ \E lay \in Layouts :
       InitWith(BIGSUR_XNU_MAJOR_VERSION, K_good(0), <<>>, lay, starts)
  \/ \E k \in Kernels, ver \in Versions :
       InitWith(ver, k, <<Arg("lb_debug", <<T_7>>), Arg("lbloom", <<T_0>>)>>, L_at0, starts)
  \/ InitWith(BIGSUR_XNU_MAJOR_VERSION + 1, K_prelink(8192), <<>>, L_at0, starts)

Init == InitOnce(1)

\* latebloom_start called again: how many calls are followed
MaxStarts == 2

InitReentry ==
  \/ \E args \in {<<>>, <<Arg("lbloom", <<T_7, T_200, T_1, T_0>>)>>,
                   <<Arg("latebloom", <<T_0>>)>>,
                   <<Arg("latebloom", <<T_7>>), Arg("latebloom", <<T_0>>)>>} :
       InitWith(BIGSUR_XNU_MAJOR_VERSION, K_good(0), args, NearLayout, MaxStarts)
  \/ \E lay \in {L_twice, L_two, L_decoy} :
       InitWith(BIGSUR_XNU_MAJOR_VERSION, K_good(0), <<>>, lay, MaxStarts)
  \/ \E k \in {K_nosymbol(0), K_badmagic(0)} :
       InitWith(BIGSUR_XNU_MAJOR_VERSION, k, <<>>, L_at0, MaxStarts)
  \/ InitWith(BIGSUR_XNU_MAJOR_VERSION - 1, K_good(0), <<>>, L_at0, MaxStarts)

SpecReentry == InitReentry /\ [][Next]_vars

Spec == Init /\ [][Next]_vars

\* the instructions of the trampoline after its entry: a thread that is inside
\* keeps executing, and IOSleep, printf and devfs_make_node return
HookBody(t) ==
  \/ CTLoad(t) \/ CTStore(t) \/ CTCompare(t)
  \/ NodeCheck(t) \/ NodeCall(t) \/ NodeStore(t)
  \/ Phase2Delay(t) \/ Phase1Delay(t) \/ DoSleep(t)
  \/ IncLoad(t) \/ IncStore(t) \/ DebugOutput(t)
  \/ NoDebugOutput(t) \/ RunSlot(t) \/ JumpBack(t)

\* three threads enumerate buses after one call of latebloom_start: one of
\* them becomes the Phase-1 thread, the other two can be in Phase 2 together
InitNode ==
  InitMachine(BIGSUR_XNU_MAJOR_VERSION, K_good(0), <<Arg("lbloom", <<T_7, T_0, T_1, T_0>>)>>,
              L_at0, 1, Threads, MaxInvocations + 1, NoCall)

SpecNode == InitNode /\ [][Next]_vars

\* the same three threads with a Phase-2 delay that is not 0: the two Phase-2
\* threads sleep and count
InitCounter ==
  InitMachine(BIGSUR_XNU_MAJOR_VERSION, K_good(0), <<Arg("lbloom", <<T_7, T_0, T_1, T_7>>)>>,
              L_at0, 1, Threads, MaxInvocations + 1, NoCall)

SpecCounter == InitCounter /\ [][Next]_vars

(***************************************************************************)
(* FindSegment64 called on its own, on images that hold segment records    *)
(* only                                                                    *)
(***************************************************************************)
\* everything but call and the statics of SymbolLookup
callFrame ==
  <<version_major, kernel, argv, boot_args, layout, probers, loops, cpuVars, codeVars,
    cfgVars, hookVars, devVars, scanVars, thrVars, BootArgs, lb_PCI_counter,
    CurrentThread, pc, startsLeft, obs>>

MaxSegments == 3
SegmentNames == {"__TEXT", "__TEXT_EXEC", SEG_LINKEDIT, LB_SEG_PRELINK_TEXT}
RequestedNames == SegmentNames \cup {"__DATA"}

\* an image whose load commands are the segment records of these names
SegmentImage(names) ==
  MakeKernel(0, MH_MAGIC_64,
             [j \in 1..Len(names) |-> Seg(names[j], KERNEL_BASE + (j * 4096), 0)],
             <<>>, <<>>)

InitSegments ==
  \E n \in 0..MaxSegments :
    \E names \in [1..n -> SegmentNames], req \in RequestedNames :
      InitMachine(BIGSUR_XNU_MAJOR_VERSION, SegmentImage(names), <<>>, L_at0, 0, {}, 0,
                  [NoCall EXCEPT !.op = "FindSegment64", !.names = names, !.name = req])

\* Segment = FindSegment64(MachHeader, SegmentName)
CallFindSegment64 ==
  /\ call.op = "FindSegment64"
  /\ call.made = 0
  /\ call' = [call EXCEPT !.made = 1,
                           !.result = FindSegment64(kernel, kernel.slide + KERNEL_BASE,
                                                    call.name)]
  /\ UNCHANGED <<callFrame, lookup>>

SpecSegments == InitSegments /\ [][CallFindSegment64]_vars

(***************************************************************************)
(* SymbolLookup called on its own, several times, on images made from a    *)
(* list of symbols                                                         *)
(***************************************************************************)
MaxSymbols == 2
MaxLookups == 2
SymbolNames == {"_printf", "_IOSleep"}
SymbolValues == {0, 2100000, 2100100}
LookupNames == SymbolNames \cup {"_PE_boot_args"}
Symbols == {Sym(n, v) : n \in SymbolNames, v \in SymbolValues}

SymbolImage(syms) == MakeKernel(0, MH_MAGIC_64, StdCmds(0, syms), <<>>, syms)

LookupCall(syms) == [NoCall EXCEPT !.op = "SymbolLookup", !.syms = syms]

InitLookup ==
  \/ \E n \in 0..MaxSymbols : \E syms \in [1..n -> Symbols] :
       InitMachine(BIGSUR_XNU_MAJOR_VERSION, SymbolImage(syms), <<>>, L_at0, 0, {}, 0,
                   LookupCall(syms))
  \/ \E k \in {K_nosymtab(0), K_nolinkedit(0), K_badmagic(0), K_good(0)} :
       InitMachine(BIGSUR_XNU_MAJOR_VERSION, k, <<>>, L_at0, 0, {}, 0, LookupCall(StdSyms))
  \/ \E k \in {K_prelink(0), K_prelink0(0), K_good(0)}, ver \in Versions :
       InitMachine(ver, k, <<>>, L_at0, 0, {}, 0, LookupCall(StdSyms))

\* the names of a sequence of pairs <<name, result>>
SeenNames(seen) == {seen[j][1] : j \in 1..Len(seen)}

\* Address = SymbolLookup(Symbol)
CallSymbolLookup ==
  /\ call.op = "SymbolLookup"
  /\ call.made < MaxLookups
  /\ \E Symbol \in LookupNames :
       LET r == SymbolLookup(kernel, version_major, lookup, Symbol)
       IN  /\ lookup' = r.st
           /\ call' = [call EXCEPT
                         !.name = Symbol,
                         !.made = @ + 1,
                         !.result = r.Address,
                         !.header = IF r.parsed /\ r.err # "BadMagic"
                                      THEN SearchHeader(kernel, version_major,
                                                        kernel.slide + KERNEL_BASE)
                                      ELSE @,
                         !.err = r.err,
                         !.parses = IF r.parsed THEN @ + 1 ELSE @,
                         !.seen = Append(@, <<Symbol, [Address |-> r.Address, err |-> r.err]>>),
                         !.repeats = IF Symbol \in SeenNames(call.seen) THEN @ + 1 ELSE @]
  /\ UNCHANGED callFrame

SpecLookup == InitLookup /\ [][CallSymbolLookup]_vars

SpecLive == Init /\ [][Next]_vars /\ \A t \in Threads : WF_vars(HookBody(t))

(***************************************************************************)
(* What a list of arguments asks for, read off the arguments themselves    *)
(***************************************************************************)
\* the decimal value of a text of digits
RECURSIVE DecVal(_, _)
DecVal(t, n) == IF n = 0 THEN 0 ELSE (DecVal(t, n - 1) * 10) + DigitVal(t[n])

\* a value is read from at most MAX_ARG_DIGITS digits
RefVal(t) == DecVal(t, IF Len(t) > MAX_ARG_DIGITS THEN MAX_ARG_DIGITS ELSE Len(t))

\* the fields of a composite argument that are read: those up to the first
\* one longer than MAX_ARG_DIGITS
Counted(a) ==
  LET long == {k \in 1..Len(a.fields) : Len(a.fields[k]) > MAX_ARG_DIGITS}
  IN  IF long = {} THEN Len(a.fields)
      ELSE CHOOSE k \in long : \A m \in long : k <= m

\* what an argument gives for one setting: nothing, a blank field, or a value
NotGiven == [given |-> "nothing", val |-> 0]
Mirror == [given |-> "blank", val |-> 0]
Value(n) == [given |-> "value", val |-> n]

\* the Phase-1 delay an argument gives
ArgDelay1(a) ==
  IF a.key = "latebloom" \/ (a.key = "lbloom" /\ Len(a.fields) >= 1)
    THEN Value(RefVal(a.fields[1])) ELSE NotGiven

\* the Phase-2 delay an argument gives; a blank fourth field of the composite
\* key asks for the Phase-1 delay
ArgDelay2(a) ==
  IF a.key = "lb_delay2" THEN Value(RefVal(a.fields[1]))
  ELSE IF a.key = "lbloom" /\ Counted(a) >= 4
    THEN (IF a.fields[4] = <<>> THEN Mirror ELSE Value(RefVal(a.fields[4])))
  ELSE NotGiven

ArgRange1(a) ==
  IF a.key = "lb_range" THEN Value(RefVal(a.fields[1]))
  ELSE IF a.key = "lbloom"
    THEN (IF Counted(a) >= 2 THEN Value(RefVal(a.fields[2])) ELSE Value(0))
  ELSE NotGiven

ArgRange2(a) ==
  IF a.key = "lb_range2" THEN Value(RefVal(a.fields[1]))
  ELSE IF a.key = "lbloom" /\ Counted(a) >= 5 THEN Value(RefVal(a.fields[5]))
  ELSE NotGiven

\* what the last argument that gives anything gives
RECURSIVE LastGiven(_, _, _)
LastGiven(Giv(_), args, k) ==
  IF k = 0 THEN NotGiven
  ELSE IF Giv(args[k]) # NotGiven THEN Giv(args[k])
  ELSE LastGiven(Giv, args, k - 1)

GivenDelay1 == LastGiven(ArgDelay1, argv, Len(argv))
GivenDelay2 == LastGiven(ArgDelay2, argv, Len(argv))
GivenRange1 == LastGiven(ArgRange1, argv, Len(argv))
GivenRange2 == LastGiven(ArgRange2, argv, Len(argv))

\* the boot-args were parsed and the defaults applied
ConfigResolved == obs.configs > 0

(***************************************************************************)
(* C3: after a ParseConfig that does not abort, RandRange <= SleepValue    *)
(* and AltRandRange <= AltSleepValue, and a range given larger than its    *)
(* paired delay has become exactly that delay.                             *)
(***************************************************************************)
C3_RangesClamped ==
  ConfigResolved =>
    /\ 0 <= lb_RandRange /\ lb_RandRange <= SleepValue
    /\ 0 <= lb_AltRandRange /\ lb_AltRandRange <= lb_AltSleepValue
    /\ (GivenRange1.val > SleepValue => lb_RandRange = SleepValue)
    /\ (GivenRange2.val > lb_AltSleepValue => lb_AltRandRange = lb_AltSleepValue)

\* lb_range=200 alone: the range becomes the default delay
C3_Witness ==
  /\ argv = <<Arg("lb_range", <<T_200>>)>>
  /\ ConfigResolved
  /\ SleepValue = DEFAULT_SLEEP
  /\ lb_RandRange = DEFAULT_SLEEP

(***************************************************************************)
(* C4: after a ParseConfig that does not abort no sentinel is left:        *)
(* SleepValue is the Phase-1 delay given, or 60; AltSleepValue is the      *)
(* Phase-2 delay given, or else the resolved SleepValue; AltRandRange is   *)
(* not -1.                                                                 *)
(***************************************************************************)
C4_NoSentinel ==
  ConfigResolved =>
    /\ SleepValue = (IF GivenDelay1 = NotGiven THEN DEFAULT_SLEEP ELSE GivenDelay1.val)
    /\ lb_AltSleepValue = (IF GivenDelay2 \in {NotGiven, Mirror}
                             THEN SleepValue ELSE GivenDelay2.val)
    /\ lb_AltRandRange # -1

(***************************************************************************)
(* C5: the composite key alone, with five fields of 1 to 4 digits, d > 0,  *)
(* r <= d and r2 <= d2, does not abort and yields exactly d, r, g, d2, r2. *)
(***************************************************************************)
C5_Input ==
  /\ Len(argv) = 1
  /\ argv[1].key = "lbloom"
  /\ Len(argv[1].fields) = 5
  /\ \A k \in 1..5 : Len(argv[1].fields[k]) \in 1..MAX_ARG_DIGITS
  /\ LET f == argv[1].fields
     IN  /\ DecVal(f[1], Len(f[1])) > 0
         /\ DecVal(f[2], Len(f[2])) <= DecVal(f[1], Len(f[1]))
         /\ DecVal(f[5], Len(f[5])) <= DecVal(f[4], Len(f[4]))

C5_CompositeExact ==
  C5_Input =>
    /\ obs.outcome # "UserDisabled"
    /\ ConfigResolved =>
         LET f == argv[1].fields
         IN  /\ SleepValue = DecVal(f[1], Len(f[1]))
             /\ lb_RandRange = DecVal(f[2], Len(f[2]))
             /\ lb_DebugLevel = DecVal(f[3], Len(f[3]))
             /\ lb_AltSleepValue = DecVal(f[4], Len(f[4]))
             /\ lb_AltRandRange = DecVal(f[5], Len(f[5]))

\* lbloom=90,20,1,30,5
C5_Witness ==
  /\ argv = <<Arg("lbloom", <<T_90, T_20, T_1, T_30, T_5>>)>>
  /\ ConfigResolved
  /\ SleepValue = 90 /\ lb_RandRange = 20 /\ lb_DebugLevel = 1
  /\ lb_AltSleepValue = 30 /\ lb_AltRandRange = 5

(***************************************************************************)
(* C1: for either phase with base delay B and range R, 0 < R <= B, and for *)
(* every pair of rdtsc samples, the delay handed to IOSleep lies in        *)
(* [B - R, B + R] and has not wrapped around 32 bits; with R = 0 it is B.  *)
(***************************************************************************)
PhaseBase(t) == IF regs[t].phase = 1 THEN SleepValue ELSE lb_AltSleepValue
PhaseRange(t) == IF regs[t].phase = 1 THEN lb_RandRange ELSE lb_AltRandRange

\* thread t is about to call IOSleep with EDI as its argument
AtSleep(t) == tpc[t] = "sleep"

C1_JitterBounded ==
  \A t \in Threads :
    AtSleep(t) =>
      /\ regs[t].phase \in {1, 2}
      /\ 0 <= PhaseRange(t) /\ PhaseRange(t) <= PhaseBase(t)
      /\ regs[t].edi[1] = 0
      /\ PhaseBase(t) - PhaseRange(t) <= regs[t].edi[2]
      /\ regs[t].edi[2] <= PhaseBase(t) + PhaseRange(t)
      /\ (PhaseRange(t) = 0 => regs[t].edi[2] = PhaseBase(t))

\* a Phase-2 delay one above the lower end of its range, and a Phase-1 delay
\* above its base, at the same time
C1_Witness ==
  \E t, u \in Threads :
    /\ AtSleep(t) /\ regs[t].phase = 2 /\ lb_AltRandRange > 1
    /\ regs[t].edi = <<0, (lb_AltSleepValue - lb_AltRandRange) + 1>>
    /\ AtSleep(u) /\ regs[u].phase = 1 /\ lb_RandRange > 0
    /\ regs[u].edi[2] > SleepValue

(***************************************************************************)
(* C2: when the boot-args hold latebloom= or lbloom= with a delay that     *)
(* reads as 0, whatever stands before or after it, the parse aborts and    *)
(* the hook is never installed: lb_jump_address stays 0, no byte of        *)
(* probeBus is written and the trampoline is never entered.                *)
(***************************************************************************)
DisablingArg(a) ==
  /\ a.key \in {"latebloom", "lbloom"}
  /\ Len(a.fields) >= 1
  /\ RefVal(a.fields[1]) = 0

Disabled == \E k \in 1..Len(argv) : DisablingArg(argv[k])

C2_DisabledNeverInstalls ==
  Disabled =>
    /\ obs.configs = 0
    /\ pc \in {"idle", "getsym", "parse"}
    /\ lb_jump_address = 0
    /\ patched = EmptyMap
    /\ obs.codeWrites = 0
    /\ lb_hook_exit = NopSlot
    /\ obs.invocations = 0
    /\ \A t \in Threads : tpc[t] = "probe"
    /\ (obs.returns > 0 /\ BootArgs = BootArgsStringAddr => obs.outcome = "UserDisabled")

\* the abort taken with the disabling key last of three arguments
C2_Witness ==
  /\ Len(argv) = 3
  /\ DisablingArg(argv[3])
  /\ ~DisablingArg(argv[1]) /\ ~DisablingArg(argv[2])
  /\ obs.outcome = "UserDisabled"
  /\ startsLeft = 0

(***************************************************************************)
(* C6: the scan ends with the lowest offset K, 0 <= K < 3144 from the      *)
(* entry of probeBus, at which a signature of the catalogue matches in all *)
(* 14 bytes, and with the index of that signature; when no signature       *)
(* begins at any offset of the span it reports PatternNotFound,            *)
(* lb_jump_address stays 0 and nothing is placed.                          *)
(***************************************************************************)
\* signature w stands, byte for byte, at offset K of probeBus as it was loaded
SignatureAt(K, w) ==
  \A b \in 1..PATTERN_SIZE :
     OrigByte(layout, ProbeBusEntry + K + (b - 1)) = BytePatterns[w + 1][b]

\* a window of 14 bytes that touches nothing the layout places reads as
\* filler throughout and holds no signature: only these offsets can match
NearPlaced ==
  UNION {{K \in (layout[k].off - (PATTERN_SIZE - 1))..(layout[k].off + layout[k].n - 1) :
            0 <= K /\ K < HOOK_WINDOW_SIZE} : k \in 1..Len(layout)}

MatchOffsets ==
  {K \in NearPlaced : \E w \in 0..(Len(BytePatterns) - 1) : SignatureAt(K, w)}

\* the scan has just ended with a match
ScanMatched == pc = "cli"
\* the scan has ended without one
ScanFailed == pc = "idle" /\ obs.outcome = "PatternNotFound"

C6_ScanLowestMatch ==
  /\ ScanMatched =>
        /\ MatchOffsets # {}
        /\ lb_jump_address - ProbeBusEntry \in MatchOffsets
        /\ \A K \in MatchOffsets : lb_jump_address - ProbeBusEntry <= K
        /\ WhichPattern \in 0..(Len(BytePatterns) - 1)
        /\ SignatureAt(lb_jump_address - ProbeBusEntry, WhichPattern)
  /\ ScanFailed =>
        /\ MatchOffsets = {}
        /\ lb_jump_address = 0
        /\ patched = EmptyMap /\ lb_hook_exit = NopSlot
  /\ (pc = "scan" /\ i = HOOK_WINDOW_SIZE /\ lb_jump_address = 0) => MatchOffsets = {}

\* the third signature found at the last offset of the span
C6_Witness ==
  /\ ScanMatched
  /\ lb_jump_address = ProbeBusEntry + (HOOK_WINDOW_SIZE - 1)
  /\ WhichPattern = 2

(***************************************************************************)
(* C8: when latebloom_start ends in a failure or an abort (old OS,         *)
(* BadMagic, SegmentNotFound, SymbolTableNotFound, SymbolNotFound,         *)
(* UserDisabled, PatternNotFound) no byte of probeBus and no byte of the   *)
(* slot has been written, CR0.WP was never cleared and the device was      *)
(* never registered.                                                       *)
(***************************************************************************)
Failures ==
  {"OldOS", "BadMagic", "SegmentNotFound", "SymbolTableNotFound", "SymbolNotFound",
   "UserDisabled", "PatternNotFound"}

EndedInFailure == pc = "idle" /\ obs.returns > 0 /\ obs.outcome \in Failures

C8_FailureWritesNothing ==
  EndedInFailure =>
    /\ patched = EmptyMap /\ obs.codeWrites = 0
    /\ lb_hook_exit = NopSlot /\ obs.slotWrites = 0
    /\ ~obs.wpCleared /\ WP_BIT \in cr0
    /\ obs.cdevswCalls = 0 /\ MajorDev = 0 /\ fBaseDev = 0 /\ fDeviceNode = NULL

\* a scan of the whole span that found nothing
C8_Witness ==
  /\ EndedInFailure
  /\ obs.outcome = "PatternNotFound"
  /\ i = HOOK_WINDOW_SIZE

(***************************************************************************)
(* C9: after an install with a signature matched at address A, the bytes   *)
(* [A, A+14) of probeBus are ff 25 00 00 00 00 and the 8-byte address of   *)
(* the trampoline, no byte outside [A, A+14) is changed, the first 14      *)
(* bytes of the slot are the bytes that stood at A, the rest of the slot   *)
(* is NOPs and lb_jump_address is A + 14: every invocation executes the    *)
(* displaced instructions once and resumes at A + 14.                      *)
(***************************************************************************)
\* the critical section has been left with the patch in place
Installed ==
  \/ pc \in {"cdevsw", "mknode"}
  \/ pc = "idle" /\ obs.outcome = "Done"

\* the bytes that stood at [a, a+14) when probeBus was loaded
DisplacedAt(a) == [k \in 1..PATTERN_SIZE |-> OrigByte(layout, a + (k - 1))]

C9_PatchFrame ==
  Installed =>
    LET A == obs.matchAddr
    IN  /\ ProbeBusEntry <= A /\ A < ProbeBusEntry + HOOK_WINDOW_SIZE
        /\ DOMAIN patched = A..(A + 13)
        /\ \A k \in 0..5 : patched[A + k] = <<255, 37, 0, 0, 0, 0>>[k + 1]
        /\ \A k \in 0..7 : patched[A + 6 + k] = LEByte(latebloom_hook, k)
        /\ \A k \in 1..PATTERN_SIZE : lb_hook_exit[k] = DisplacedAt(A)[k]
        /\ \A k \in (PATTERN_SIZE + 1)..SLOT_SIZE : lb_hook_exit[k] = NOP
        /\ lb_jump_address = A + PATTERN_SIZE
        /\ \A t \in Threads :
              /\ tpc[t] # "probe" => regs[t].site = A
              /\ tpc[t] = "jmpq" => regs[t].ran = DisplacedAt(A)
              /\ (tpc[t] = "probe" /\ regs[t].done > 0) =>
                    /\ regs[t].ran = DisplacedAt(A)
                    /\ regs[t].resume = A + PATTERN_SIZE

\* both threads that run probeBus have been through the trampoline and are back,
\* past a patch that does not lie at the entry
C9_Witness ==
  /\ Installed
  /\ obs.matchAddr > ProbeBusEntry
  /\ \A t \in probers :
        /\ regs[t].done > 0 /\ tpc[t] = "probe"
        /\ regs[t].resume = obs.matchAddr + PATTERN_SIZE

(***************************************************************************)
(* C10: interrupts are disabled and CR0.WP is cleared only after a match   *)
(* has been found, every store into probeBus and into the slot is made     *)
(* inside that section, and at every return of latebloom_start CR0.WP is   *)
(* what it was at entry and interrupts are enabled.                        *)
(***************************************************************************)
InSection == ~intr \/ WP_BIT \notin cr0

C10_CriticalSection ==
  /\ InSection =>
        /\ obs.matchAddr # 0
        /\ pc \in {"cr0", "jmp", "addr", "jumpback", "memcpy", "restore", "sti"}
  /\ obs.wpCleared => obs.matchAddr # 0
  /\ ~obs.badWrite
  /\ (obs.codeWrites > 0 \/ obs.slotWrites > 0) => obs.wpCleared
  /\ pc \in {"jmp", "addr", "memcpy"} => ~intr /\ WP_BIT \notin cr0
  /\ (pc = "idle" /\ obs.returns > 0) =>
        /\ intr
        /\ (WP_BIT \in cr0) = (WP_BIT \in obs.entry_cr0)
        /\ cr0 = obs.entry_cr0

\* a return after the section was entered and left
C10_Witness ==
  /\ pc = "idle" /\ obs.returns > 0
  /\ obs.wpCleared /\ obs.codeWrites = 2 /\ obs.slotWrites = 1
  /\ intr /\ WP_BIT \in cr0

(***************************************************************************)
(* C7: the hook state moves unresolved -> located -> installed only, each  *)
(* step at most once: once lb_jump_address is the match address + 14 it    *)
(* never changes again, and a further call of latebloom_start after an     *)
(* install neither scans nor writes probeBus again.                        *)
(***************************************************************************)
HookState ==
  IF lb_jump_address = 0 THEN "unresolved"
  ELSE IF lb_jump_address = obs.matchAddr THEN "located"
  ELSE IF lb_jump_address = obs.matchAddr + PATTERN_SIZE THEN "installed"
  ELSE "other"

HookStep ==
  /\ HookState = "unresolved" => HookState' \in {"unresolved", "located"}
  /\ HookState = "located" => HookState' \in {"located", "installed"}
  /\ HookState = "installed" =>
        /\ HookState' = "installed"
        /\ lb_jump_address' = lb_jump_address
        /\ patched' = patched
        /\ obs'.matchAddr = obs.matchAddr
        /\ obs'.scans = obs.scans
        /\ obs'.codeWrites = obs.codeWrites
        /\ pc' \notin {"scan", "cli", "cr0", "jmp", "addr", "jumpback"}
  /\ HookState # "other" /\ HookState' # "other"

C7_HookStateOneWay == [][HookStep]_vars

\* a second call has returned after the install made by the first
C7_Witness ==
  /\ HookState = "installed"
  /\ pc = "idle" /\ obs.returns = 2 /\ obs.outcome = "Done"
  /\ obs.scans = 1 /\ obs.codeWrites = 2

(***************************************************************************)
(* C11: every invocation of the trampoline comes to its end                *)
(***************************************************************************)
\* thread t is in probeBus, and when it has been through the trampoline its
\* last invocation ran the bytes of the slot and jumped through lb_jump_address
OutOfTrampoline(t) ==
  /\ tpc[t] = "probe"
  /\ regs[t].done > 0 =>
       /\ regs[t].ran = Instructions(lb_hook_exit)
       /\ regs[t].resume = lb_jump_address

\* C11: once the hook is installed, every invocation of the trampoline, of
\* either phase, with or without jitter, debug output or a device node,
\* eventually executes the relocated bytes and jumps to the jump-back address:
\* no thread stays inside the trampoline for ever
C11_InvocationReturns == \A t \in Threads : []<>OutOfTrampoline(t)

\* a Phase-2 invocation that did not sleep and whose node creation failed is
\* at the final jump
C11_Witness ==
  \E t \in Threads :
    /\ tpc[t] = "jmpq"
    /\ regs[t].phase = 2
    /\ regs[t].sleeps = 0
    /\ obs.nodeCalls > 0
    /\ fDeviceNode = NULL
    /\ regs[t].ran = Instructions(lb_hook_exit)

(***************************************************************************)
(* C12: the phase of an invocation when invocations do not overlap         *)
(***************************************************************************)
\* no invocation has begun while another thread was inside the trampoline
Sequential == ~obs.overlap

\* the instructions only a Phase-1 invocation executes, and those only a
\* Phase-2 invocation executes
OnPhase1Path(t) == tpc[t] = "phase1"
OnPhase2Path(t) == tpc[t] \in {"nodecheck", "nodecall", "nodestore", "phase2"}

\* the delay and the range an invocation of thread t has to use
SeqBase(t) == IF t = obs.first THEN SleepValue ELSE lb_AltSleepValue
SeqRange(t) == IF t = obs.first THEN lb_RandRange ELSE lb_AltRandRange

\* C12: in a sequence of invocations that do not overlap, the first stores
\* its thread in CurrentThread and is Phase 1; every later invocation is
\* Phase 1 exactly when its thread is the stored one and Phase 2 otherwise;
\* a Phase-1 invocation computes its delay from SleepValue and lb_RandRange,
\* a Phase-2 invocation from lb_AltSleepValue and lb_AltRandRange
C12_PhaseByFirstThread ==
  Sequential =>
    /\ CurrentThread \in {0, obs.first}
    /\ \A t \in Threads :
         /\ regs[t].phase # 0 =>
              /\ CurrentThread = obs.first
              /\ regs[t].phase = (IF t = obs.first THEN 1 ELSE 2)
         /\ OnPhase1Path(t) => t = obs.first
         /\ OnPhase2Path(t) => t # obs.first
         /\ AtSleep(t) =>
              /\ regs[t].edi[1] = 0
              /\ SeqBase(t) - SeqRange(t) <= regs[t].edi[2]
              /\ regs[t].edi[2] <= SeqBase(t) + SeqRange(t)

\* after an invocation of the first thread, another thread is about to sleep
\* for a Phase-2 delay that no Phase-1 invocation could have computed
C12_Witness ==
  \E t \in Threads :
    /\ Sequential
    /\ obs.invocations = 2
    /\ t # obs.first
    /\ regs[obs.first].done = 1
    /\ AtSleep(t)
    /\ regs[t].phase = 2
    /\ regs[t].edi[2] < SleepValue - lb_RandRange

(***************************************************************************)
(* C13: a Phase-2 delay of 0 skips the sleep of Phase-2 invocations only   *)
(***************************************************************************)
\* the invocation of thread t is past the place where it sleeps or skips
PastSleep(t) == tpc[t] \in {"pops", "slot", "jmpq"}

\* thread t is at the call of IOSleep or between it and the pops
AroundSleep(t) == tpc[t] \in {"sleep", "incload", "incstore", "printf"}

\* C13: when the resolved Phase-2 delay is 0 no Phase-2 invocation calls
\* IOSleep while Phase-1 invocations still sleep; when it is not 0 every
\* Phase-2 invocation calls IOSleep exactly once
C13_Phase2ZeroSkipsSleep ==
  \A t \in Threads :
    /\ regs[t].sleeps <= 1
    /\ (regs[t].phase = 2 /\ lb_AltSleepValue = 0) =>
         (regs[t].sleeps = 0 /\ ~AroundSleep(t))
    /\ (PastSleep(t) /\ regs[t].phase = 2 /\ lb_AltSleepValue # 0) => regs[t].sleeps = 1
    /\ (PastSleep(t) /\ regs[t].phase = 1) => regs[t].sleeps = 1

\* with a Phase-2 delay of 0, a Phase-2 invocation that has not slept and a
\* Phase-1 invocation that has, both at the final jump
C13_Witness ==
  \E t, u \in Threads :
    /\ lb_AltSleepValue = 0
    /\ tpc[t] = "jmpq" /\ regs[t].phase = 2 /\ regs[t].sleeps = 0
    /\ tpc[u] = "jmpq" /\ regs[u].phase = 1 /\ regs[u].sleeps = 1

(***************************************************************************)
(* C14: the device node is made once                                       *)
(***************************************************************************)
\* C14: across any interleaving of Phase-2 invocations by several threads,
\* devfs_make_node is called only while fDeviceNode is unset, and once a call
\* has succeeded and its node is stored no further call is made and
\* fDeviceNode keeps that node
C14_NodeMadeOnce ==
  /\ obs.lateCalls = 0
  /\ obs.made # NULL => fDeviceNode = obs.made
  /\ \A t \in Threads : tpc[t] = "nodestore" => obs.made = NULL

(***************************************************************************)
(* C15: FindSegment on a list of segment records                           *)
(***************************************************************************)
\* the position of the first of names that equals name, 0 when none does
FirstNamed(names, name) ==
  IF \E j \in 1..Len(names) : names[j] = name
    THEN CHOOSE j \in 1..Len(names) :
           /\ names[j] = name
           /\ \A h \in 1..(j - 1) : names[h] # name
    ELSE 0

\* where the j-th of the records lies when they follow the header directly
RecordAddress(j) ==
  KERNEL_BASE + SIZEOF_MACH_HEADER_64 + ((j - 1) * SIZEOF_SEGMENT_COMMAND_64)

SegmentCallDone == call.op = "FindSegment64" /\ call.made = 1

\* C15: on an image whose N segment records lie directly after the header,
\* with sizeofcmds their total size, FindSegment64 returns the first record
\* whose name equals the requested name, wherever it lies (the last record
\* included), and NULL when no record has that name (N = 0 included)
C15_FindSegmentExact ==
  SegmentCallDone =>
    /\ kernel.hdr[KERNEL_BASE].sizeofcmds = Len(call.names) * SIZEOF_SEGMENT_COMMAND_64
    /\ call.result =
         (IF FirstNamed(call.names, call.name) = 0 THEN NULL
          ELSE RecordAddress(FirstNamed(call.names, call.name)))

\* the requested name stands in the last of three records only, behind a
\* record whose name it is a prefix of, and that record was returned
C15_Witness ==
  /\ SegmentCallDone
  /\ call.names = <<SEG_LINKEDIT, "__TEXT_EXEC", "__TEXT">>
  /\ call.name = "__TEXT"
  /\ call.result = RecordAddress(3)
  /\ kernel.lc[call.result].segname = "__TEXT"

(***************************************************************************)
(* C16: Lookup on a resolved table                                         *)
(***************************************************************************)
\* the position of the first of syms whose name equals name, 0 when none does
FirstSymbol(syms, name) ==
  IF \E j \in 1..Len(syms) : syms[j].name = name
    THEN CHOOSE j \in 1..Len(syms) :
           /\ syms[j].name = name
           /\ \A h \in 1..(j - 1) : syms[h].name # name
    ELSE 0

\* the three statics of SymbolLookup are set
Resolved(st) == st.SymbolTable # NULL /\ st.StringTable # NULL /\ st.NameList # NULL

\* a call of SymbolLookup has returned with the table resolved
LookedUp == call.op = "SymbolLookup" /\ call.made > 0 /\ Resolved(lookup)

\* C16: on a resolved table of M entries (M = 0 included) SymbolLookup
\* returns the value of the first entry whose string equals the name, whatever
\* that value is, and reports the symbol as not found exactly when no entry's
\* string equals the name
C16_LookupFirstMatch ==
  LookedUp =>
    IF FirstSymbol(call.syms, call.name) = 0
      THEN call.err = "SymbolNotFound" /\ call.result = NULL
      ELSE /\ call.err = "ok"
           /\ call.result = call.syms[FirstSymbol(call.syms, call.name)].value

(***************************************************************************)
(* C17: the table is resolved once                                         *)
(***************************************************************************)
\* what was returned the last time name was asked for
LastSeen(seen, name) ==
  LET j == CHOOSE h \in 1..Len(seen) :
             /\ seen[h][1] = name
             /\ \A g \in (h + 1)..Len(seen) : seen[g][1] # name
  IN  seen[j][2]

\* a step taken with the table resolved leaves the statics alone, does not
\* go through the load commands, and answers a name asked for before as before
ResolvedStep ==
  Resolved(lookup) =>
    /\ lookup' = lookup
    /\ call'.parses = call.parses
    /\ call'.name \in SeenNames(call.seen) =>
         LastSeen(call.seen, call'.name) = [Address |-> call'.result, err |-> call'.err]

\* C17: after the first SymbolLookup that resolves the table, no later call
\* locates or parses the image again or changes the cached handle, and calls
\* with the same name return the same result
C17_ResolvedOnce == [][ResolvedStep]_vars

\* a name was looked up a second time, found, and the image was parsed once
C17_Witness ==
  /\ call.op = "SymbolLookup"
  /\ call.made = 2
  /\ call.repeats = 1
  /\ call.parses = 1
  /\ call.err = "ok"
  /\ Resolved(lookup)

(***************************************************************************)
(* C18: which match is taken when signatures stand at several offsets      *)
(***************************************************************************)
\* the signatures of the catalogue that stand at some offset of the span
MatchingSignatures ==
  {w \in 0..(Len(BytePatterns) - 1) : \E K \in MatchOffsets : SignatureAt(K, w)}

\* signatures stand at more than one offset of the span
SeveralMatches == \E K, J \in MatchOffsets : K # J

\* C18 as stated: when signatures match at more than one offset, the match
\* taken is that of the first catalogue entry that matches at any offset
\* (catalogue order decides, not offset order)
C18_CatalogueOrderDecides ==
  (ScanMatched /\ SeveralMatches) =>
    /\ WhichPattern \in MatchingSignatures
    /\ \A w \in MatchingSignatures : WhichPattern <= w
    /\ SignatureAt(lb_jump_address - ProbeBusEntry, WhichPattern)

\* C18, amended: when signatures match at more than one offset, the match
\* taken is the one at the lowest offset, with the first catalogue entry
\* that matches there (offset order decides, not catalogue order), and the
\* scan stops at that offset
C18_OffsetOrderDecides ==
  (ScanMatched /\ SeveralMatches) =>
    LET K == lb_jump_address - ProbeBusEntry
    IN  /\ K \in MatchOffsets
        /\ \A J \in MatchOffsets : K <= J
        /\ WhichPattern \in MatchingSignatures
        /\ SignatureAt(K, WhichPattern)
        /\ \A w \in 0..(WhichPattern - 1) : ~SignatureAt(K, w)
        /\ i = K + 1
        /\ ptr = lb_jump_address + 1

\* the second signature was taken at offset 5 although the first signature
\* of the catalogue stands at offset 30
C18_Witness ==
  /\ ScanMatched
  /\ SeveralMatches
  /\ WhichPattern = 1
  /\ lb_jump_address = ProbeBusEntry + 5
  /\ SignatureAt(30, 0)

(***************************************************************************)
(* C19: the fields of lbloom= that are left out                            *)
(***************************************************************************)
\* the boot-args hold one argument, an lbloom= whose fields have at most
\* MAX_ARG_DIGITS digits
SingleComposite ==
  /\ Len(argv) = 1
  /\ argv[1].key = "lbloom"
  /\ Len(argv[1].fields) >= 1
  /\ \A k \in 1..Len(argv[1].fields) : Len(argv[1].fields[k]) <= MAX_ARG_DIGITS

\* field k of the argument is not there at all, or is there and empty
Absent(k) == Len(argv[1].fields) < k
Blank(k) == Len(argv[1].fields) >= k /\ argv[1].fields[k] = <<>>

Smaller(a, b) == IF a <= b THEN a ELSE b

SingleOverlong ==
  /\ Len(argv) = 1
  /\ argv[1].key = "lbloom"
  /\ \E k \in 1..Len(argv[1].fields) : Len(argv[1].fields[k]) > MAX_ARG_DIGITS

\* the fields with the first over-long one cut to its first four digits and
\* every later field replaced by 0
CutAndZeroed(fields, p) ==
  [k \in 1..Len(fields) |->
     IF k < p THEN fields[k]
     ELSE IF k = p THEN SubSeq(fields[p], 1, MAX_ARG_DIGITS)
     ELSE T_0]

\* what the parser makes of a single lbloom= with these fields
ResolvedFrom(fields) ==
  ParseConfig(Render(<<Arg("lbloom", fields)>>, 1), ConfigVars(0, 0, 0, -1, -1, FALSE))

ParseEnded == ConfigResolved \/ obs.outcome = "UserDisabled"

SameConfig(c) ==
  /\ c.abort = (obs.outcome = "UserDisabled")
  /\ ~c.abort =>
       /\ SleepValue = c.SleepValue
       /\ lb_RandRange = c.lb_RandRange
       /\ lb_DebugLevel = c.lb_DebugLevel
       /\ lb_AltSleepValue = c.lb_AltSleepValue
       /\ lb_AltRandRange = c.lb_AltRandRange

\* C20: when a field of lbloom= has more than four digits, in any of the
\* five positions, its first four digits are used and every later field is
\* treated as 0: lbloom=12345,90,1 behaves as lbloom=1234,0,0
C20_OverlongZeroesRest ==
  (ParseEnded /\ SingleOverlong) =>
    SameConfig(ResolvedFrom(CutAndZeroed(argv[1].fields, Counted(argv[1]))))

(***************************************************************************)
(* C21: the loop counter after invocations that do not overlap             *)
(***************************************************************************)
\* no thread is inside the trampoline
AllOut == \A t \in Threads : tpc[t] = "probe"

\* C21 as stated: every invocation of the trampoline adds one to
\* lb_PCI_counter, so that after n invocations that do not overlap the counter
\* is n, whatever the configuration and the phases of the invocations
C21_CounterCountsInvocations ==
  (Sequential /\ AllOut) => lb_PCI_counter = obs.invocations

\* C21, amended: every invocation that calls IOSleep adds one to
\* lb_PCI_counter and a Phase-2 invocation with a Phase-2 delay of 0 leaves it
\* alone, so that after n invocations that do not overlap the counter is n
\* when the Phase-2 delay is not 0 and the number of Phase-1 invocations (those
\* of the first thread) when it is 0
C21_CounterCountsSleeps ==
  (Sequential /\ AllOut) =>
    /\ lb_PCI_counter = obs.slept
    /\ lb_AltSleepValue # 0 => lb_PCI_counter = obs.invocations
    /\ (lb_AltSleepValue = 0 /\ obs.invocations > 0) =>
         lb_PCI_counter = regs[obs.first].done

\* with a Phase-2 delay of 0, a Phase-1 and then a Phase-2 invocation have
\* come to their ends and the counter is 1
C21_Witness ==
  /\ Sequential /\ AllOut
  /\ lb_AltSleepValue = 0
  /\ obs.invocations = 2
  /\ \E t \in Threads : t # obs.first /\ regs[t].done = 1
  /\ lb_PCI_counter = 1

(***************************************************************************)
(* C22: the loop counter under concurrent invocations                      *)
(***************************************************************************)
\* C22: incl _lb_PCI_counter taken as a read followed by a write, under any
\* interleaving of invocations, concurrent Phase-2 invocations included: the
\* counter never exceeds the number of increments executed; updates can be
\* lost, none is counted twice
C22_CounterNeverOvercounts ==
  /\ lb_PCI_counter <= obs.incs
  /\ obs.incs <= obs.slept
  /\ obs.slept <= obs.invocations

\* two Phase-2 invocations have both executed the increment and the counter
\* holds one of the two
C22_Witness ==
  \E t, u \in Threads :
    /\ t # u
    /\ regs[t].phase = 2 /\ regs[u].phase = 2
    /\ PastSleep(t) /\ PastSleep(u)
    /\ regs[t].sleeps = 1 /\ regs[u].sleeps = 1
    /\ obs.incs = 3
    /\ lb_PCI_counter = 2

(***************************************************************************)
(* C23: the log line of an invocation                                      *)
(***************************************************************************)
\* the label of the phase an invocation was classified as
PhaseLabel(t) == IF regs[t].phase = 1 THEN HookMessagePhase1 ELSE HookMessagePhase2

\* C23: for every debug level that is not 0, each invocation that sleeps
\* prints exactly one line with the loop counter, the label of its phase
\* (ONBOARD for Phase 1, EXTERNAL for Phase 2), the delay it computed and the
\* low 32 bits of its thread; with debug level 0 no line is printed
C23_OneLinePerSleep ==
  \A t \in Threads :
    (tpc[t] = "pops" /\ regs[t].sleeps = 1) =>
      IF lb_DebugLevel # 0
        THEN /\ regs[t].logs = 1
             /\ regs[t].line.counter \in 1..obs.incs
             /\ regs[t].line.label = PhaseLabel(t)
             /\ regs[t].line.delay = regs[t].pushed
             /\ regs[t].line.thread = W32(t)
        ELSE regs[t].logs = 0

(***************************************************************************)
(* C24: the stored thread under concurrent invocations                     *)
(***************************************************************************)
\* C24: under any interleaving of invocations by several threads,
\* CurrentThread is written once, by the first invocation, and keeps that
\* value, so that at most one thread is ever taken for the Phase-1 thread
C24_PhaseIdentitySetOnce ==
  /\ obs.ctStores <= 1
  /\ Cardinality(obs.ones) <= 1
  /\ obs.ones # {} => obs.ones = {CurrentThread}

(***************************************************************************)
(* C25: the stack of an invocation                                         *)
(***************************************************************************)
\* the places of the trampoline between the pushes and the call of IOSleep
BeforeSleep(t) ==
  tpc[t] \in {"ctload", "ctstore", "ctcmp", "nodecheck", "nodecall", "nodestore", "phase1",
              "phase2", "sleep"}

\* C25: on every path through the trampoline the fourteen registers pushed
\* on entry are popped in the reverse order before the bytes of the slot run,
\* the delay pushed in front of IOSleep is popped again before the exit
\* sequence, and the stack is as deep at the jump back as it was on entry,
\* also when a Phase-2 delay of 0 skips the sleep and when the log call is
\* skipped
C25_StackBalanced ==
  /\ PoppedRegisters = Reverse(PushedRegisters)
  /\ \A t \in Threads :
       /\ tpc[t] = "probe" => regs[t].stack = <<>>
       /\ BeforeSleep(t) => regs[t].stack = PushedRegisters
       /\ tpc[t] \in {"incload", "incstore"} =>
            regs[t].stack = Append(PushedRegisters, "rdi")
       /\ tpc[t] \in {"printf", "pops"} => regs[t].stack = PushedRegisters
       /\ tpc[t] \in {"slot", "jmpq"} => regs[t].stack = <<>>

\* an invocation that slept and skipped the log call is at the jump back
\* with nothing left on the stack
C25_Witness ==
  \E t \in Threads :
    /\ tpc[t] = "jmpq"
    /\ regs[t].sleeps = 1
    /\ regs[t].logs = 0
    /\ regs[t].stack = <<>>
    /\ regs[t].ran = Instructions(lb_hook_exit)

(***************************************************************************)
(* C26: lookups on an image whose symbol table cannot be resolved          *)
(***************************************************************************)
\* the image has one header, and what the load commands behind it lack
OneHeader == DOMAIN kernel.hdr = {KERNEL_BASE}

BadMagicImage == OneHeader /\ kernel.hdr[KERNEL_BASE].magic # MH_MAGIC_64

NoLinkeditImage ==
  /\ OneHeader /\ ~BadMagicImage
  /\ ~\E a \in DOMAIN kernel.lc :
        kernel.lc[a].cmd = LC_SEGMENT_64 /\ kernel.lc[a].segname = SEG_LINKEDIT

NoSymtabImage ==
  /\ OneHeader /\ ~BadMagicImage /\ ~NoLinkeditImage
  /\ ~\E a \in DOMAIN kernel.lc : kernel.lc[a].cmd = LC_SYMTAB

ResolutionFailures == {"BadMagic", "SegmentNotFound", "SymbolTableNotFound"}

LookupMade == call.op = "SymbolLookup" /\ call.made > 0

\* C26: when the resolution fails (wrong magic, no __LINKEDIT segment, or no
\* LC_SYMTAB among the load commands) SymbolLookup returns NULL and leaves its
\* three statics unset, and every later call on the same image fails in the
\* same way
C26_FailedResolutionStays ==
  LookupMade =>
    /\ BadMagicImage => call.err = "BadMagic"
    /\ NoLinkeditImage => call.err = "SegmentNotFound"
    /\ NoSymtabImage => call.err = "SymbolTableNotFound"
    /\ call.err \in ResolutionFailures =>
         /\ call.result = NULL
         /\ lookup = Statics(NULL, NULL, NULL)
         /\ call.parses = call.made
    /\ \A j \in 1..Len(call.seen) :
         call.seen[j][2].err \in ResolutionFailures =>
           \A h \in j..Len(call.seen) :
             /\ call.seen[h][2].Address = NULL
             /\ call.seen[h][2].err = call.seen[j][2].err

\* two lookups were made on an image without LC_SYMTAB: both went through
\* the load commands and both failed
C26_Witness ==
  /\ LookupMade
  /\ NoSymtabImage
  /\ call.made = 2
  /\ call.parses = 2
  /\ call.err = "SymbolTableNotFound"
  /\ call.seen[1][2].err = "SymbolTableNotFound"
  /\ call.result = NULL
  /\ ~Resolved(lookup)

(***************************************************************************)
(* C27: the header the resolution searches from                            *)
(***************************************************************************)
\* the vmaddr of the __PRELINK_TEXT record behind the image's first header,
\* NULL when there is no such record
PrelinkVmaddr ==
  LET recs == {a \in DOMAIN kernel.lc :
                 /\ a < KERNEL_BASE + PrelinkOffset
                 /\ kernel.lc[a].cmd = LC_SEGMENT_64
                 /\ kernel.lc[a].segname = LB_SEG_PRELINK_TEXT}
  IN  IF recs = {} THEN NULL ELSE kernel.lc[CHOOSE a \in recs : TRUE].vmaddr

\* a call has gone through the load commands of an image with a good magic
ResolutionRun == LookupMade /\ call.parses > 0 /\ ~BadMagicImage

\* C27: on kernel major version 20 or later the search for __LINKEDIT and
\* LC_SYMTAB starts from the vmaddr of __PRELINK_TEXT only when that segment
\* is present and its vmaddr is not 0; when the segment is absent or carries
\* no vmaddr, and on older versions, it starts from the header computed from
\* the slide
C27_PrelinkHeaderWhenSet ==
  ResolutionRun =>
    /\ call.header =
         (IF version_major >= BIGSUR_XNU_MAJOR_VERSION /\ PrelinkVmaddr # NULL
            THEN PrelinkVmaddr ELSE KERNEL_BASE)
    /\ call.err # "Fault"

(***************************************************************************)
(* C28: the order of the stores of the installation                        *)
(***************************************************************************)
\* the slot holds the bytes that stood at a, followed by NOPs
SlotHoldsOriginal(a) ==
  /\ \A k \in 1..PATTERN_SIZE : lb_hook_exit[k] = DisplacedAt(a)[k]
  /\ \A k \in (PATTERN_SIZE + 1)..SLOT_SIZE : lb_hook_exit[k] = NOP

\* the fourteen bytes at the match address are the jump into the trampoline
JumpComplete == obs.matchAddr # 0 /\ JumpToHookAt(obs.matchAddr)

\* C28: in every state of the installation in which the code at the match
\* address A holds the complete jump into the trampoline, the slot already
\* holds the original bytes and the jump-back address already is A + 14
C28_JumpNeverAheadOfSlot ==
  JumpComplete =>
    /\ SlotHoldsOriginal(obs.matchAddr)
    /\ lb_jump_address = obs.matchAddr + PATTERN_SIZE

\* C28 as the code has it: the jump is complete from the store at 698 on;
\* before the store at 700 the jump-back address still is A, before the copy
\* at 705 the slot still holds NOPs only, and from the copy on the slot holds
\* the original bytes and the jump-back address is A + 14; no thread is in
\* the trampoline before latebloom_start has returned
C28_SlotFilledAfterJump ==
  /\ JumpComplete <=>
        (obs.matchAddr # 0 /\ (pc \in {"jumpback", "memcpy", "restore", "sti"} \/ Installed))
  /\ JumpComplete =>
        /\ pc = "jumpback" => lb_jump_address = obs.matchAddr /\ lb_hook_exit = NopSlot
        /\ pc = "memcpy" =>
              lb_jump_address = obs.matchAddr + PATTERN_SIZE /\ lb_hook_exit = NopSlot
        /\ pc \notin {"jumpback", "memcpy"} =>
              /\ SlotHoldsOriginal(obs.matchAddr)
              /\ lb_jump_address = obs.matchAddr + PATTERN_SIZE
  /\ (\E t \in Threads : tpc[t] # "probe") => Installed

\* the jump is complete while the slot holds NOPs and the jump-back address
\* is the match address
C28_Witness ==
  /\ JumpComplete
  /\ pc = "jumpback"
  /\ lb_hook_exit = NopSlot
  /\ lb_jump_address = obs.matchAddr

(***************************************************************************)
(* C29: the device identifier handed to devfs_make_node by the trampoline  *)
(***************************************************************************)
\* a thread is at or just past callq _devfs_make_node (296)
AtNodeCall(t) == tpc[t] \in {"nodecall", "nodestore"}

\* C29: the trampoline calls devfs_make_node only in Phase-2 invocations and
\* only with a device identifier that a successful cdevsw_add produced: when
\* cdevsw_add failed, no invocation attempts to create the node
C29_NodeOnlyAfterRegistration ==
  /\ \A t \in Threads :
        AtNodeCall(t) =>
          /\ regs[t].phase = 2
          /\ MajorDev >= 0
          /\ fBaseDev = makedev(MajorDev, 0)
  /\ obs.nodeCalls > 0 => MajorDev >= 0

(***************************************************************************)
(* C30: the order in which the keys are applied                            *)
(***************************************************************************)
\* the debug level an argument gives
ArgDebug(a) ==
  IF a.key = "lb_debug" THEN Value(RefVal(a.fields[1]))
  ELSE IF a.key = "lbloom"
    THEN (IF Counted(a) >= 3 THEN Value(RefVal(a.fields[3])) ELSE Value(0))
  ELSE NotGiven

\* the place of the last argument that gives a setting, 0 when none does
LastPlace(Giv(_)) ==
  LET S == {k \in 1..Len(argv) : Giv(argv[k]) # NotGiven}
  IN  IF S = {} THEN 0 ELSE CHOOSE k \in S : \A m \in S : m <= k

SmallerOf(a, b) == IF a > b THEN b ELSE a

\* the five settings as the last argument that gives each of them gives it,
\* with the defaults and the truncation of the ranges
DecidedDelay1 ==
  IF LastPlace(ArgDelay1) = 0 THEN DEFAULT_SLEEP
  ELSE ArgDelay1(argv[LastPlace(ArgDelay1)]).val
DecidedRange1 ==
  IF LastPlace(ArgRange1) = 0 THEN 0
  ELSE SmallerOf(ArgRange1(argv[LastPlace(ArgRange1)]).val, DecidedDelay1)
DecidedDebug ==
  IF LastPlace(ArgDebug) = 0 THEN 0 ELSE ArgDebug(argv[LastPlace(ArgDebug)]).val
DecidedDelay2 ==
  LET k == LastPlace(ArgDelay2)
  IN  IF k = 0 THEN DecidedDelay1
      ELSE IF ArgDelay2(argv[k]) = Mirror THEN RefVal(argv[k].fields[1])
      ELSE ArgDelay2(argv[k]).val
DecidedRange2 ==
  LET k == LastPlace(ArgRange2)
  IN  SmallerOf(IF k = 0 THEN DecidedRange1 ELSE ArgRange2(argv[k]).val, DecidedDelay2)

\* the last composite argument, 0 when there is none
LastComposite == LastPlace(LAMBDA a : IF a.key = "lbloom" THEN Value(0) ELSE NotGiven)

====
